---- MODULE Spec2Model ----
(***************************************************************************)
(* A model of the entity consolidation and redaction engine of the         *)
(* pii-redactor backend:                                                   *)
(*   - app/services/pii_detection_service.py : merge, dedup, filter        *)
(*   - app/services/redaction_service.py     : redact_document,            *)
(*                                             apply_redactions_to_pdf     *)
(*   - app/api/documents.py                  : process_document_task,      *)
(*                                             apply_redaction             *)
(* Texts are sequences of one-character strings so that lower(), strip()   *)
(* and the regular expressions of the filter are computed, not assumed.    *)
(* Confidences are integers in hundredths (0.85 is 85).                    *)
(***************************************************************************)
EXTENDS Integers, Sequences, FiniteSets, TLC

(***************************************************************************)
(* Strings                                                                 *)
(***************************************************************************)
UpperLetters ==
  <<"A","B","C","D","E","F","G","H","I","J","K","L","M",
    "N","O","P","Q","R","S","T","U","V","W","X","Y","Z">>

LowerLetters ==
  <<"a","b","c","d","e","f","g","h","i","j","k","l","m",
    "n","o","p","q","r","s","t","u","v","w","x","y","z">>

Digits == {"0","1","2","3","4","5","6","7","8","9"}

Whitespace == {" ", "\t", "\n", "\r"}

SeqRange(s) == {s[i] : i \in DOMAIN s}

Letters == SeqRange(UpperLetters) \cup SeqRange(LowerLetters)

IsAlpha(c) == c \in Letters

\* the regular expression class \w
IsWord(c) == IsAlpha(c) \/ c \in Digits \/ c = "_"

\* the regular expression class \s
IsSpace(c) == c \in Whitespace

\* str.lower() on one character
LowerOf ==
  [c \in SeqRange(UpperLetters) |->
     LowerLetters[CHOOSE i \in DOMAIN UpperLetters : UpperLetters[i] = c]]

lower_char(c) == IF c \in DOMAIN LowerOf THEN LowerOf[c] ELSE c

\* str.lower()
lower(t) == [i \in DOMAIN t |-> lower_char(t[i])]

RECURSIVE lstrip(_)
lstrip(t) == IF t # <<>> /\ IsSpace(Head(t)) THEN lstrip(Tail(t)) ELSE t

RECURSIVE rstrip(_)
rstrip(t) ==
  IF t # <<>> /\ IsSpace(t[Len(t)]) THEN rstrip(SubSeq(t, 1, Len(t) - 1)) ELSE t

\* str.strip()
strip(t) == rstrip(lstrip(t))

\* str.replace('.', '')
RECURSIVE remove_dots(_)
remove_dots(t) ==
  IF t = <<>> THEN <<>>
  ELSE IF Head(t) = "." THEN remove_dots(Tail(t))
  ELSE <<Head(t)>> \o remove_dots(Tail(t))

\* str.isdigit(): non-empty and all digits
isdigit(t) == t # <<>> /\ \A i \in DOMAIN t : t[i] \in Digits

DigitValue(c) ==
  CASE c = "0" -> 0 [] c = "1" -> 1 [] c = "2" -> 2 [] c = "3" -> 3 [] c = "4" -> 4
    [] c = "5" -> 5 [] c = "6" -> 6 [] c = "7" -> 7 [] c = "8" -> 8 [] c = "9" -> 9

\* int() of a string of digits
RECURSIVE int_of(_)
int_of(t) ==
  IF t = <<>> THEN 0 ELSE 10 * int_of(SubSeq(t, 1, Len(t) - 1)) + DigitValue(t[Len(t)])

CountDots(t) == Cardinality({i \in DOMAIN t : t[i] = "."})

(***************************************************************************)
(* False-positive filter: PIIDetectionService._filter_header_labels        *)
(***************************************************************************)
skip_labels ==
  {
    <<"o","f","f","i","c","e"," ","c","o","p","y">>,
    <<"r","e","c","e","i","p","t"," ","d","a","t","e">>, <<"f","o","r","m"," ","n","o">>,
    <<"r","e","c","e","i","p","t"," ","n","o">>, <<"p","r","n"," ","n","o">>,
    <<"p","a","y","m","e","n","t"," ","d","a","t","e">>,
    <<"i","n","s","t","a","l","l","m","e","n","t"," ","d","e","t","a","i","l","s">>,
    <<"p","a","i","d"," ","a","m","o","u","n","t">>,
    <<"c","l","a","s","s"," ","n","a","m","e">>,
    <<"s","t","u","d","e","n","t"," ","n","a","m","e">>,
    <<"a","c","a","d","e","m","i","c"," ","y","e","a","r">>, <<"d","i","v">>,
    <<"c","a","t","e","g","o","r","y">>, <<"r","o","l","l"," ","n","o">>,
    <<"g","r","a","n","d"," ","t","o","t","a","l">>,
    <<"a","m","o","u","n","t"," ","i","n"," ","r","s">>,
    <<"p","a","i","d"," ","a","m","o","u","n","t"," ","i","n"," ","r","s">>,
    <<"s","t","u","d","e","n","t"," ","n","a","m","e",":">>,
    <<"f","o","r","m"," ","n","o",":">>, <<"c","l","a","s","s"," ","n","a","m","e",":">>,
    <<"r","e","c","e","i","v","e","d",":">>, <<"r","s">>,
    <<"c","o","l","l","e","g","e"," ","f","e","e"," ","p","a","r","t","i","c","u","l","a","r","s">>,
    <<"p","a","i","d"," ","o","n">>,
    <<"t","r","a","n","s","a","c","t","i","o","n"," ","i","d">>, <<"t","o","t","a","l">>,
    <<"r","e","c","e","i","p","t">>, <<"c","o","l","l","e","g","e"," ","f","e","e">>,
    <<"p","o","r","t","a","l"," ","s","u","b","s","c","r","i","p","t","i","o","n"," ","f","e","e">>,
    <<"a","m","o","u","n","t"," ","i","n"," ","w","o","r","d","s">>,
    <<"p","a","y"," ","d","a","t","e"," ","&"," ","t","i","m","e">>,
    <<"a","m","o","u","n","t"," ","i","n"," ","r","s",".">>,
    <<"c","o","l","l","e","g","e"," ","f","e","e"," ","r","e","c","e","i","p","t">>,
    <<"d","a","t","e">>, <<"t","i","m","e">>, <<"f","e","e">>, <<"f","o","r","m">>,
    <<"i","n"," ","r","s">>, <<"a","m","o","u","n","t">>, <<"p","a","i","d">>, <<"a">>,
    <<"o","b","c">>, <<"b","."," ","t","e","c","h">>, <<"b",".","t","e","c","h">>,
    <<"b"," ","t","e","c","h">>, <<"c","s">>, <<"b",".","a">>, <<"b",".","s","c">>,
    <<"b",".","c","o","m">>, <<"b",".","e">>, <<"m","t","e","c","h">>,
    <<"m",".","t","e","c","h">>, <<"m","c","a">>, <<"m",".","c","a">>,
    <<"t","h","r","e","e"," ","h","u","n","d","r","e","d"," ","a","n","d"," ","f","i","f","t","y"," ","f","o","u","r"," ","r","u","p","e","e","s">>,
    <<"t","h","r","e","e"," ","h","u","n","d","r","e","d">>, <<"f","i","f","t","y">>,
    <<"f","o","u","r">>, <<"r","u","p","e","e","s">>, <<"a","n","d">>,
    <<"p","r","n"," ","n","o",":">>,
    <<"o","f","f","i","c","e"," ","c","o","p","y"," ","r","e","c","e","i","p","t"," ","d","a","t","e">>,
    <<"0",".","0","0">>, <<"0",".","0">>, <<"3","5","4">>, <<"2","8","1","9">>, <<"0","0">>,
    <<"0">>, <<"d","e","g","r","e","e">>, <<"d","i","p","l","o","m","a">>,
    <<"c","e","r","t","i","f","i","c","a","t","e">>, <<"c","o","u","r","s","e">>,
    <<"n","a","m","e">>, <<"i","d">>, <<"n","u","m","b","e","r">>, <<"n","o">>,
    <<"n","o",":">>, <<"d","a","t","e",":">>, <<"t","i","m","e",":">>,
    <<"a","m","o","u","n","t",":">>, <<"p","a","i","d"," ","o","n",":">>,
    <<"p","a","i","d"," ","d","a","t","e",":">>,
    <<"p","a","y","m","e","n","t"," ","d","a","t","e",":">>, <<"f","r","o","m",":">>,
    <<"t","o",":">>, <<"b","a","l","a","n","c","e">>, <<"d","u","e">>,
    <<"s","e","m","e","s","t","e","r">>, <<"a","c","a","d","e","m","i","c">>,
    <<"s","e","s","s","i","o","n">>, <<"y","e","a","r">>, <<"2","0","2","5","-","2","6">>,
    <<"2","0","2","4","-","2","5">>, <<"2","0","2","3","-","2","4">>
  }
common_pii_labels ==
  {<<"s","s","n">>, <<"d","o","b">>, <<"p","a","n">>, <<"a","a","d","h","a","r">>, <<"p","h","o","n","e">>, <<"e","m","a","i","l">>, <<"n","a","m","e">>, <<"a","d","d","r","e","s","s">>, <<"c","i","t","y">>, <<"s","t","a","t","e">>, <<"p","i","n">>, <<"z","i","p">>, <<"a","c","c","o","u","n","t">>, <<"c","a","r","d">>, <<"i","d">>, <<"n","o">>, <<"d","a","t","e">>}

Prefix(t, n) == SubSeq(t, 1, n)

Suffix(t, n) == SubSeq(t, n + 1, Len(t))

\* re.match(r'^\w+\s+<word>:?$', t)
MatchWordSpaceThen(t, word) ==
  \E i \in 1..Len(t) : \E j \in (i + 1)..Len(t) :
    /\ \A k \in 1..i : IsWord(t[k])
    /\ \A k \in (i + 1)..j : IsSpace(t[k])
    /\ Suffix(t, j) \in {word, word \o <<":">>}

\* re.match(r'^[\w\s]+:$', t)
MatchEndsWithColon(t) ==
  /\ Len(t) >= 2
  /\ t[Len(t)] = ":"
  /\ \A k \in 1..(Len(t) - 1) : IsWord(t[k]) \/ IsSpace(t[k])

\* the three label_patterns, tried in order; any match rejects
MatchesLabelPattern(t) ==
  \/ MatchWordSpaceThen(t, <<"n","o">>)
  \/ MatchWordSpaceThen(t, <<"n","a","m","e">>)
  \/ MatchEndsWithColon(t)

\* re.match(r'^[a-zA-Z\s]+[Rr]upees?$', t)
MatchesWrittenAmount(t) ==
  \E i \in 1..Len(t) :
    /\ \A k \in 1..i : IsAlpha(t[k]) \/ IsSpace(t[k])
    /\ Suffix(t, i) \in { <<"R","u","p","e","e">>, <<"r","u","p","e","e">>,
                          <<"R","u","p","e","e","s">>, <<"r","u","p","e","e","s">> }

\* re.match(r'^\d{1,2}:\d{2}(:\d{2})?', t): a prefix match
MatchesTime(t) ==
  \/ /\ Len(t) >= 4
     /\ t[1] \in Digits /\ t[2] = ":" /\ t[3] \in Digits /\ t[4] \in Digits
  \/ /\ Len(t) >= 5
     /\ t[1] \in Digits /\ t[2] \in Digits /\ t[3] = ":"
     /\ t[4] \in Digits /\ t[5] \in Digits

RECURSIVE StripLeadingZeros(_)
StripLeadingZeros(t) ==
  IF t # <<>> /\ Head(t) = "0" THEN StripLeadingZeros(Tail(t)) ELSE t

\* int(digits) <= 9999, digits a string of digits (possibly empty: value 0)
IntAtMost9999(digits) == Len(StripLeadingZeros(digits)) <= 4

IntBelow9999(digits) ==
  /\ IntAtMost9999(digits)
  /\ StripLeadingZeros(digits) # <<"9","9","9","9">>

\* float(t) raises ValueError: t holds digits and dots only, at least one digit
\* and at least one dot; it parses exactly when it has a single dot
FloatRaises(t) == CountDots(t) >= 2

\* 0 <= amount <= 9999 where amount = float(t) if '.' in t else int(t)
AmountInRange(t) ==
  IF CountDots(t) = 0 THEN IntAtMost9999(t)
  ELSE LET dot == CHOOSE i \in DOMAIN t : t[i] = "."
           whole == Prefix(t, dot - 1)
           frac == Suffix(t, dot)
       IN \/ IntBelow9999(whole)
          \/ IntAtMost9999(whole) /\ \A k \in DOMAIN frac : frac[k] = "0"

ShortLabelExempt == {"DATE", "TIME", "STUDENT_ID", "TRANSACTION_ID"}

FieldLabelExempt == {"SSN", "PHONE", "EMAIL", "DATE"}

\* the decision of one loop iteration: "keep", "drop" or "raise" (ValueError
\* out of float() at line 224)
FilterDecision(entity) ==
  LET entity_text == strip(entity.text)
      entity_text_lower == strip(lower(entity_text))
  IN  IF entity_text_lower \in skip_labels THEN "drop"
      ELSE IF MatchesLabelPattern(entity_text_lower) THEN "drop"
      ELSE IF Len(entity_text) <= 2 /\ entity.label \notin ShortLabelExempt THEN "drop"
      ELSE IF entity_text_lower \in common_pii_labels /\ entity.label \notin FieldLabelExempt
        THEN "drop"
      ELSE IF entity.label = "IDENTIFIER" /\ isdigit(remove_dots(entity_text))
                /\ CountDots(entity_text) > 0 /\ FloatRaises(entity_text)
        THEN "raise"
      ELSE IF entity.label = "IDENTIFIER" /\ isdigit(remove_dots(entity_text))
                /\ AmountInRange(entity_text)
        THEN "drop"
      ELSE IF entity.label = "IDENTIFIER" /\ MatchesWrittenAmount(entity_text) THEN "drop"
      ELSE IF entity.label = "TIME" /\ ~MatchesTime(entity_text) THEN "drop"
      ELSE "keep"

\* the loop stops at the first entity whose decision is "raise"
FilterRaises(entities) ==
  \E i \in DOMAIN entities : FilterDecision(entities[i]) = "raise"

filter_header_labels(entities) ==
  SelectSeq(entities, LAMBDA e : FilterDecision(e) = "keep")

(***************************************************************************)
(* Consolidation: _merge_overlapping_entities and _deduplicate_by_method   *)
(***************************************************************************)
\* abs(entity.start_pos - existing.start_pos) <= 5 (line 528)
PositionVariance == 5

\* existing.end_pos + 2 and existing.start_pos - 2 (line 533)
OverlapSlack == 2

Abs(n) == IF n < 0 THEN 0 - n ELSE n

\* entity['text'].lower().strip(), the text part of both grouping keys
normalize_text(text) == strip(lower(text))

\* the grouping key with the .lower() call left out: "Joe" and "joe" would
\* then be two groups
duplicate_key_without_lower(entity) == <<strip(entity.text), entity.label>>

\* duplicate_key (line 503, the string text:label) and the dedup key (line
\* 384); no label holds a colon, so the string and the pair identify the
\* same groups
duplicate_key(entity) == <<normalize_text(entity.text), entity.label>>

\* list.sort(key=start_pos): a stable insertion sort
RECURSIVE InsertByStart(_, _)
InsertByStart(sorted, e) ==
  IF sorted = <<>> THEN <<e>>
  ELSE IF sorted[Len(sorted)].start_pos <= e.start_pos THEN Append(sorted, e)
  ELSE Append(InsertByStart(SubSeq(sorted, 1, Len(sorted) - 1), e), sorted[Len(sorted)])

RECURSIVE SortByStart(_)
SortByStart(entities) ==
  IF entities = <<>> THEN <<>>
  ELSE InsertByStart(SortByStart(SubSeq(entities, 1, Len(entities) - 1)),
                     entities[Len(entities)])

\* line 526: same label and same lower-cased text
SameTextAndLabel(entity, existing) ==
  entity.label = existing.label /\ lower(entity.text) = lower(existing.text)

\* line 533: the overlap test of the scan
PositionsOverlap(entity, existing) ==
  /\ entity.start_pos <= existing.end_pos + OverlapSlack
  /\ entity.start_pos >= existing.start_pos - OverlapSlack

\* lines 536-544: regex beats a non-regex existing entity, else strictly
\* higher confidence replaces
ShouldReplace(entity, existing) ==
  \/ entity.method = "regex" /\ existing.method # "regex"
  \/ entity.confidence > existing.confidence

\* the existing entity at which the inner loop breaks (lines 525-555)
BreaksAt(entity, existing) ==
  IF SameTextAndLabel(entity, existing)
    THEN Abs(entity.start_pos - existing.start_pos) <= PositionVariance
    ELSE PositionsOverlap(entity, existing)

\* one iteration of the outer loop (lines 498-559) on the pair
\* [merged, seen_text]; seen_text is a function from keys to entities
MergeStep(acc, entity) ==
  LET merged == acc.merged
      seen_text == acc.seen_text
      key == duplicate_key(entity)
  IN  IF key \in DOMAIN seen_text
        THEN IF entity.confidence > seen_text[key].confidence
               THEN [merged |-> Append(SelectSeq(merged, LAMBDA e : duplicate_key(e) # key),
                                       entity),
                     seen_text |-> (key :> entity) @@ seen_text]
               ELSE acc
      ELSE IF \E i \in DOMAIN merged : BreaksAt(entity, merged[i])
        THEN LET first == CHOOSE i \in DOMAIN merged :
                            /\ BreaksAt(entity, merged[i])
                            /\ \A j \in 1..(i - 1) : ~BreaksAt(entity, merged[j])
                 existing == merged[first]
             IN  IF ~SameTextAndLabel(entity, existing) /\ ShouldReplace(entity, existing)
                   THEN [merged |-> Append(SelectSeq(merged, LAMBDA e : e # existing), entity),
                         seen_text |-> (key :> entity) @@ seen_text]
                   ELSE acc
      ELSE [merged |-> Append(merged, entity),
            seen_text |-> (key :> entity) @@ seen_text]

RECURSIVE MergeLoop(_, _)
MergeLoop(acc, entities) ==
  IF entities = <<>> THEN acc
  ELSE MergeLoop(MergeStep(acc, Head(entities)), Tail(entities))

merge_overlapping_entities(entities) ==
  MergeLoop([merged |-> <<>>, seen_text |-> <<>>], SortByStart(entities)).merged

\* group.sort(key=confidence, reverse=True); best = group[0]: the first
\* member of the group, in list order, that has the highest confidence
BestOfGroup(entities, key) ==
  LET members == SelectSeq(entities, LAMBDA e : duplicate_key(e) = key)
      top == CHOOSE i \in DOMAIN members :
               /\ \A j \in DOMAIN members : members[j].confidence <= members[i].confidence
               /\ \A j \in 1..(i - 1) : members[j].confidence < members[i].confidence
  IN  members[top]

\* one entity per key, in the order in which the keys first appear
RECURSIVE DedupFrom(_, _)
DedupFrom(entities, i) ==
  IF i > Len(entities) THEN <<>>
  ELSE IF \E j \in 1..(i - 1) : duplicate_key(entities[j]) = duplicate_key(entities[i])
    THEN DedupFrom(entities, i + 1)
  ELSE <<BestOfGroup(entities, duplicate_key(entities[i]))>> \o DedupFrom(entities, i + 1)

deduplicate_by_method(entities) == DedupFrom(entities, 1)

\* detect_pii lines 88-114 on the concatenated raw entities: the lists after
\* each stage; raised when the filter's float() raises, and then nothing is returned
detect_pii(entities) ==
  LET merged == merge_overlapping_entities(entities)
      deduplicated == deduplicate_by_method(merged)
      raised == FilterRaises(deduplicated)
  IN  [merged |-> merged,
       deduplicated |-> deduplicated,
       raised |-> raised,
       entities |-> IF raised THEN <<>> ELSE filter_header_labels(deduplicated)]

(***************************************************************************)
(* State                                                                   *)
(***************************************************************************)
VARIABLES
  raw,        \* detect_pii: the concatenated raw entities (line 88)
  det,        \* detect_pii: position and the lists after each stage
  status,     \* documents.status of the document row
  metadata,   \* documents.metadata of the document row, one JSON blob
  storage,    \* the object store: content of the redacted artifact
  task,       \* process_document_task: position and locals
  req,        \* apply_redaction: position and locals of each request
  clock,      \* the timestamps handed out so far (line 994)
  passes,     \* the history entries of the passes that returned success
  sess,       \* one redaction pass over a surface: its inputs and its outcome
  fx,         \* _filter_header_labels applied once and again to a list
  thr,        \* detect_pii of one text at two confidence thresholds
  ents        \* metadata.entities of the document row and the entity requests

vars == <<raw, det, status, metadata, storage, task, req, clock, passes,
          sess, fx, thr, ents>>

extVars == <<sess, fx, thr, ents>>

detVars == <<raw, det>>

docVars == <<status, metadata, storage>>

applyVars == <<req, clock, passes>>

(***************************************************************************)
(* Bounded inputs of detect_pii                                            *)
(***************************************************************************)
MaxRaw == 3

StartStep == 3

\* what the detectors report, (text, label, method, confidence): one name by
\* the pattern detector and by the transformer at a higher and at an equal
\* confidence, the same name in another spelling, an organisation by both
\* detectors, and a header word of the deny list
Reports ==
  { [text |-> <<"J","o","e">>, label |-> "PERSON", method |-> "regex", confidence |-> 85],
    [text |-> <<"J","o","e">>, label |-> "PERSON", method |-> "huggingface", confidence |-> 99],
    [text |-> <<"J","o","e">>, label |-> "PERSON", method |-> "huggingface", confidence |-> 85],
    [text |-> <<"j","o","e"," ">>, label |-> "PERSON", method |-> "huggingface", confidence |-> 85],
    [text |-> <<"A","c","m","e">>, label |-> "ORGANIZATION", method |-> "huggingface", confidence |-> 99],
    [text |-> <<"A","c","m","e">>, label |-> "ORGANIZATION", method |-> "regex", confidence |-> 85],
    [text |-> <<"T","o","t","a","l">>, label |-> "IDENTIFIER", method |-> "regex", confidence |-> 85] }

\* three places of the text, StartStep apart
Starts == {k * StartStep : k \in {0, 1, 2}}

\* raw entities: end_pos = start_pos + len(text), as every detector reports
RawEntities ==
  { [text |-> r.text, label |-> r.label, confidence |-> r.confidence,
     start_pos |-> s, end_pos |-> s + Len(r.text), method |-> r.method] :
    r \in Reports, s \in Starts }

RawLists == UNION {[1..n -> RawEntities] : n \in 0..MaxRaw}

DetIdle == [pc |-> "idle", merged |-> <<>>, deduplicated |-> <<>>,
            raised |-> FALSE, entities |-> <<>>]

(***************************************************************************)
(* Redaction service, reduced to what its callers observe.  An artifact is *)
(* "none" (not written), "original" (a byte-identical copy of the input)   *)
(* or "redacted" (the surface saved after the regions were painted).       *)
(***************************************************************************)
\* file formats by suffix: '.pdf', one of the image suffixes, anything else
Formats == {"pdf", "image", "other"}

\* what opening and processing the surface does inside _redact_pdf or
\* _redact_image: it succeeds, it raises an exception that is not a
\* ValueError (fitz.FileDataError, PIL.UnidentifiedImageError, OSError), or
\* it raises ValueError (PyMuPDF on an encrypted or zero-page document)
SurfaceOutcomes == {"ok", "error", "value_error"}

MaxFound == 2

\* RedactionService.redact_document (lines 55-88)
redact_document(fmt, surface, copy_ok, total, found) ==
  IF fmt = "other" \/ surface = "value_error"
    THEN \* lines 66-72: ValueError is re-raised
         [raised |-> TRUE, output |-> "none", redacted_entities |-> 0,
          total_entities |-> total, error |-> FALSE]
  ELSE IF surface = "ok"
    THEN [raised |-> FALSE, output |-> "redacted", redacted_entities |-> found,
          total_entities |-> total, error |-> FALSE]
  ELSE IF copy_ok
    THEN \* lines 73-85: copy the original, report zero and an 'error' entry
         [raised |-> FALSE, output |-> "original", redacted_entities |-> 0,
          total_entities |-> total, error |-> TRUE]
  ELSE \* lines 86-88: the copy failed too
       [raised |-> TRUE, output |-> "none", redacted_entities |-> 0,
        total_entities |-> total, error |-> FALSE]

\* apply_redactions_to_pdf with a handler that swallows the failure and hands
\* the input bytes back with zeroed statistics instead of re-raising
apply_redactions_to_pdf_swallowing(open_ok, found) ==
  IF open_ok
    THEN [raised |-> FALSE, bytes |-> "redacted", total_redacted |-> found]
    ELSE [raised |-> FALSE, bytes |-> "original", total_redacted |-> 0]

\* apply_redactions_to_pdf (lines 338-462): fitz.open on the bytes raises
\* and the handler at line 460 re-raises; otherwise the saved bytes and the
\* statistics are returned
apply_redactions_to_pdf(open_ok, found) ==
  IF open_ok
    THEN [raised |-> FALSE, bytes |-> "redacted", total_redacted |-> found]
    ELSE [raised |-> TRUE, bytes |-> "none", total_redacted |-> 0]

(***************************************************************************)
(* The document row                                                        *)
(***************************************************************************)
\* metadata keys kept: stage, error (present or not), redaction_history
\* (absent is the empty list, lines 1045-1046), redacted_storage_path
\* (present or not)
NoMetadata ==
  [stage |-> "none", error |-> FALSE, redaction_history |-> <<>>,
   redacted_storage_path |-> FALSE]

\* the blob written with status 'failed': it replaces every other key
\* (lines 243, 251, 305, 363, 398, 468)
FailedMetadata(stage) ==
  [stage |-> stage, error |-> TRUE, redaction_history |-> <<>>,
   redacted_storage_path |-> FALSE]

\* new_metadata of a stage update; 'completed' carries redacted_storage_path
NewMetadata(stage) ==
  [stage |-> stage, error |-> FALSE, redaction_history |-> <<>>,
   redacted_storage_path |-> stage = "completed"]

\* get_and_merge_metadata (lines 209-223): {**current, **new} when the row
\* could be fetched and holds metadata, else new_metadata alone
get_and_merge_metadata(current, fetched, stage) ==
  IF fetched /\ current # NoMetadata
    THEN [current EXCEPT !.stage = stage,
                         !.redacted_storage_path = @ \/ stage = "completed"]
    ELSE NewMetadata(stage)

TaskIdle ==
  [pc |-> "idle", stage |-> "none", merged |-> NoMetadata, fmt |-> "pdf",
   redacted_file |-> "none",
   redaction |-> [called |-> FALSE, fmt |-> "pdf", surface |-> "ok", copy_ok |-> TRUE,
                  raised |-> FALSE, output |-> "none", redacted_entities |-> 0,
                  total_entities |-> 0, error |-> FALSE]]

Requests == {1, 2}

ReqIdle ==
  [pc |-> "idle", document |-> [status |-> "queued", metadata |-> NoMetadata],
   open_ok |-> TRUE, bytes |-> "none", total_redacted |-> 0, timestamp |-> 0,
   response |-> "none"]

(***************************************************************************)
(* Idle values of the pass, filter, threshold and entity-store state       *)
(***************************************************************************)
SessIdle == [pc |-> "idle"]

FxIdle == [pc |-> "idle"]

ThrIdle == [pc |-> "idle"]

EntsIdle == [pc |-> "idle"]

ExtIdle ==
  /\ sess = SessIdle
  /\ fx = FxIdle
  /\ thr = ThrIdle
  /\ ents = EntsIdle

(***************************************************************************)
(* detect_pii                                                              *)
(***************************************************************************)
InitDetect ==
  /\ raw \in RawLists
  /\ det = DetIdle
  /\ status = "queued"
  /\ metadata = NoMetadata
  /\ storage = [redacted |-> "none"]
  /\ task = TaskIdle
  /\ req = [p \in Requests |-> ReqIdle]
  /\ clock = 0
  /\ passes = <<>>
  /\ ExtIdle

\* lines 88-114: merge, dedup, filter; the filter's ValueError propagates
DetectPii ==
  /\ det.pc = "idle"
  /\ det' = [pc |-> "done"] @@ detect_pii(raw)
  /\ UNCHANGED <<extVars, raw, docVars, task, applyVars>>

NextDetect == DetectPii

SpecDetect == InitDetect /\ [][NextDetect]_vars

(***************************************************************************)
(* process_document_task (documents.py lines 225-469): the automatic pass  *)
(***************************************************************************)
InitAuto ==
  /\ raw = <<>>
  /\ det = DetIdle
  /\ status = "queued"
  /\ metadata = NoMetadata
  /\ storage = [redacted |-> "none"]
  /\ \E f \in Formats : task = [TaskIdle EXCEPT !.pc = "start", !.fmt = f]
  /\ req = [p \in Requests |-> ReqIdle]
  /\ clock = 0
  /\ passes = <<>>
  /\ ExtIdle

\* where the task goes after the metadata update of a stage
AfterStage(stage) ==
  CASE stage = "download_complete" -> [pc |-> "fetch", stage |-> "ocr_starting"]
    [] stage = "ocr_starting" -> [pc |-> "ocr", stage |-> stage]
    [] stage = "ocr_complete" -> [pc |-> "fetch", stage |-> "pii_detection_starting"]
    [] stage = "pii_detection_starting" -> [pc |-> "detect", stage |-> stage]
    [] stage = "pii_detection_complete" -> [pc |-> "fetch", stage |-> "redaction_starting"]
    [] stage = "redaction_starting" -> [pc |-> "redact", stage |-> stage]
    [] stage = "redaction_complete" -> [pc |-> "fetch", stage |-> "upload_starting"]
    [] stage = "upload_starting" -> [pc |-> "upload", stage |-> stage]
    [] stage = "completed" -> [pc |-> "cleanup", stage |-> stage]

\* the status column written together with the metadata of a stage
\* (line 263 and line 446; the other updates write metadata only)
StatusWrittenAt(stage, current) ==
  IF stage = "download_complete" THEN "processing"
  ELSE IF stage = "completed" THEN "processed"
  ELSE current

\* line 227
TaskStart ==
  /\ task.pc = "start"
  /\ status' = "processing"
  /\ task' = [task EXCEPT !.pc = "download"]
  /\ UNCHANGED <<extVars, detVars, metadata, storage, applyVars>>

\* lines 229-255: the download returns bytes, returns an unexpected or empty
\* response (status 'failed', return), or raises (general error handler)
TaskDownload ==
  /\ task.pc = "download"
  /\ \E outcome \in {"ok", "no_data", "raises"} :
       CASE outcome = "ok" ->
              /\ task' = [task EXCEPT !.pc = "fetch", !.stage = "download_complete"]
              /\ UNCHANGED <<status, metadata>>
         [] outcome = "no_data" ->
              /\ status' = "failed"
              /\ metadata' = FailedMetadata("download")
              /\ task' = [task EXCEPT !.pc = "done"]
         [] outcome = "raises" ->
              /\ task' = [task EXCEPT !.pc = "general_error"]
              /\ UNCHANGED <<status, metadata>>
  /\ UNCHANGED <<extVars, detVars, storage, applyVars>>

\* get_and_merge_metadata before each stage update: reads the row
TaskFetchMetadata ==
  /\ task.pc = "fetch"
  /\ \E fetched \in BOOLEAN :
       task' = [task EXCEPT !.pc = "update",
                            !.merged = get_and_merge_metadata(metadata, fetched, task.stage)]
  /\ UNCHANGED <<extVars, detVars, docVars, applyVars>>

\* the update that follows: writes the merged blob (and status at two stages)
TaskUpdate ==
  /\ task.pc = "update"
  /\ metadata' = task.merged
  /\ status' = StatusWrittenAt(task.stage, status)
  /\ task' = [task EXCEPT !.pc = AfterStage(task.stage).pc,
                          !.stage = AfterStage(task.stage).stage]
  /\ UNCHANGED <<extVars, detVars, storage, applyVars>>

\* lines 280-308: OCR; on an exception status 'failed' is written and the
\* task goes on with empty text
TaskOcr ==
  /\ task.pc = "ocr"
  /\ \E ok \in BOOLEAN :
       IF ok
         THEN /\ task' = [task EXCEPT !.pc = "fetch", !.stage = "ocr_complete"]
              /\ UNCHANGED <<status, metadata>>
         ELSE /\ status' = "failed"
              /\ metadata' = FailedMetadata("ocr_failed")
              /\ task' = [task EXCEPT !.pc = "fetch", !.stage = "pii_detection_starting"]
  /\ UNCHANGED <<extVars, detVars, storage, applyVars>>

\* lines 321-365: detection; on an exception status 'failed' is written and
\* the task goes on with no entities
TaskDetect ==
  /\ task.pc = "detect"
  /\ \E ok \in BOOLEAN :
       IF ok
         THEN /\ task' = [task EXCEPT !.pc = "fetch", !.stage = "pii_detection_complete"]
              /\ UNCHANGED <<status, metadata>>
         ELSE /\ status' = "failed"
              /\ metadata' = FailedMetadata("pii_detection_failed")
              /\ task' = [task EXCEPT !.pc = "fetch", !.stage = "redaction_starting"]
  /\ UNCHANGED <<extVars, detVars, storage, applyVars>>

\* lines 379-403: redact_document; its return value is not inspected; on an
\* exception status 'failed' is written and the original is copied (a failing
\* copy goes to the general error handler)
TaskRedact ==
  /\ task.pc = "redact"
  /\ \E surface \in SurfaceOutcomes, copy_ok \in BOOLEAN, handler_copy_ok \in BOOLEAN,
        total \in 0..MaxFound, found \in 0..MaxFound :
       LET result == redact_document(task.fmt, surface, copy_ok, total, found)
           call == [called |-> TRUE, fmt |-> task.fmt, surface |-> surface,
                    copy_ok |-> copy_ok, raised |-> result.raised,
                    output |-> result.output,
                    redacted_entities |-> result.redacted_entities,
                    total_entities |-> result.total_entities, error |-> result.error]
       IN  IF ~result.raised
             THEN /\ task' = [task EXCEPT !.pc = "fetch", !.stage = "redaction_complete",
                                          !.redacted_file = result.output,
                                          !.redaction = call]
                  /\ UNCHANGED <<status, metadata>>
             ELSE /\ status' = "failed"
                  /\ metadata' = FailedMetadata("redaction_failed")
                  /\ task' = [task EXCEPT
                                !.pc = IF handler_copy_ok THEN "fetch" ELSE "general_error",
                                !.stage = "upload_starting",
                                !.redacted_file = IF handler_copy_ok THEN "original" ELSE "none",
                                !.redaction = call]
  /\ UNCHANGED <<extVars, detVars, storage, applyVars>>

\* lines 416-431: read the redacted file and upload it
TaskUpload ==
  /\ task.pc = "upload"
  /\ \E ok \in BOOLEAN :
       IF ok
         THEN /\ storage' = [storage EXCEPT !.redacted = task.redacted_file]
              /\ task' = [task EXCEPT !.pc = "fetch", !.stage = "completed"]
         ELSE /\ task' = [task EXCEPT !.pc = "general_error"]
              /\ UNCHANGED storage
  /\ UNCHANGED <<extVars, detVars, status, metadata, applyVars>>

\* lines 461-463: os.remove of the two temporary files
TaskCleanup ==
  /\ task.pc = "cleanup"
  /\ \E ok \in BOOLEAN :
       task' = [task EXCEPT !.pc = IF ok THEN "done" ELSE "general_error"]
  /\ UNCHANGED <<extVars, detVars, docVars, applyVars>>

\* the handler of the outer try if it logged the exception and wrote nothing
TaskGeneralError_only_logging ==
  /\ task.pc = "general_error"
  /\ task' = [task EXCEPT !.pc = "done"]
  /\ UNCHANGED <<extVars, detVars, docVars, applyVars>>

\* lines 464-469: the handler of the outer try
TaskGeneralError ==
  /\ task.pc = "general_error"
  /\ status' = "failed"
  /\ metadata' = FailedMetadata("general_error")
  /\ task' = [task EXCEPT !.pc = "done"]
  /\ UNCHANGED <<extVars, detVars, storage, applyVars>>

NextAuto ==
  \/ TaskStart
  \/ TaskDownload
  \/ TaskFetchMetadata
  \/ TaskUpdate
  \/ TaskOcr
  \/ TaskDetect
  \/ TaskRedact
  \/ TaskUpload
  \/ TaskCleanup
  \/ TaskGeneralError

SpecAuto == InitAuto /\ [][NextAuto]_vars

\* the task is a plain function run to its end by the worker that took it
\* from the background queue (line 170): a step that can be taken is taken
SpecAutoFair == InitAuto /\ [][NextAuto]_vars /\ WF_vars(NextAuto)
(***************************************************************************)
(* apply_redaction (documents.py lines 871-1109): the user-approved pass   *)
(***************************************************************************)
\* 'Keep only last 10 versions in history' (line 1059)
HistoryLimit == 10

MaxPasses == 12

MaxConcPasses == 3

\* the document as the automatic pass left it
InitApply ==
  /\ raw = <<>>
  /\ det = DetIdle
  /\ \E processed \in BOOLEAN :
       /\ status = IF processed THEN "processed" ELSE "failed"
       /\ metadata = IF processed THEN NewMetadata("completed")
                      ELSE FailedMetadata("general_error")
       /\ storage = [redacted |-> IF processed THEN "redacted" ELSE "none"]
  /\ task = [TaskIdle EXCEPT !.pc = "done"]
  /\ req = [p \in Requests |-> ReqIdle]
  /\ clock = 0
  /\ passes = <<>>
  /\ ExtIdle

InFlight(p) == req[p].pc \notin {"idle", "done"}

\* a request arrives while no other request is being served
ApplyBeginAlone(p) ==
  /\ ~InFlight(p)
  /\ \A q \in Requests : ~InFlight(q)
  /\ clock < MaxPasses
  /\ req' = [req EXCEPT ![p] = [ReqIdle EXCEPT !.pc = "read"]]
  /\ UNCHANGED <<extVars, detVars, docVars, task, clock, passes>>

\* a request arrives, whatever the other requests are doing
ApplyBegin(p) ==
  /\ ~InFlight(p)
  /\ clock < MaxConcPasses
  /\ req' = [req EXCEPT ![p] = [ReqIdle EXCEPT !.pc = "read"]]
  /\ UNCHANGED <<extVars, detVars, docVars, task, clock, passes>>

\* lines 893-904: select the row; document is the request's own copy
ApplyRead(p) ==
  /\ req[p].pc = "read"
  /\ req' = [req EXCEPT ![p].pc = "download",
                        ![p].document = [status |-> status, metadata |-> metadata]]
  /\ UNCHANGED <<extVars, detVars, docVars, task, clock, passes>>

\* lines 913-946: download the original; HTTP 404 or 400 when it fails
ApplyDownload(p) ==
  /\ req[p].pc = "download"
  /\ \E ok \in BOOLEAN :
       req' = IF ok THEN [req EXCEPT ![p].pc = "redact"]
              ELSE [req EXCEPT ![p].pc = "done", ![p].response = "http_404"]
  /\ UNCHANGED <<extVars, detVars, docVars, task, clock, passes>>

\* lines 973-997 and 1102-1109: apply_redactions_to_pdf; an exception
\* becomes HTTP 500; otherwise the timestamp of the pass is taken
ApplyRedact(p) ==
  /\ req[p].pc = "redact"
  /\ \E open_ok \in BOOLEAN, found \in 0..MaxFound :
       LET result == apply_redactions_to_pdf(open_ok, found)
       IN  IF result.raised
             THEN /\ req' = [req EXCEPT ![p].pc = "done", ![p].open_ok = open_ok,
                                        ![p].response = "http_500"]
                  /\ UNCHANGED clock
             ELSE /\ req' = [req EXCEPT ![p].pc = "upload", ![p].open_ok = open_ok,
                                        ![p].bytes = result.bytes,
                                        ![p].total_redacted = result.total_redacted,
                                        ![p].timestamp = clock + 1]
                  /\ clock' = clock + 1
  /\ UNCHANGED <<extVars, detVars, docVars, task, passes>>

\* lines 999-1035: the versioned copy is best effort; the latest object is
\* removed (errors ignored) and uploaded again; a failing upload is HTTP 500
ApplyUpload(p) ==
  /\ req[p].pc = "upload"
  /\ \E removed \in BOOLEAN, uploaded \in BOOLEAN :
       IF uploaded
         THEN /\ storage' = [storage EXCEPT !.redacted = req[p].bytes]
              /\ req' = [req EXCEPT ![p].pc = "update"]
         ELSE /\ storage' = [storage EXCEPT !.redacted = IF removed THEN "none" ELSE @]
              /\ req' = [req EXCEPT ![p].pc = "done", ![p].response = "http_500"]
  /\ UNCHANGED <<extVars, detVars, status, metadata, task, clock, passes>>

\* lines 1049-1056: the history entry of a pass
HistoryEntry(timestamp) == [timestamp |-> timestamp]

\* the trim with the slice taken from the wrong end, redaction_history[:10]
TrimHistory_keep_oldest(history) ==
  IF Len(history) > HistoryLimit
    THEN SubSeq(history, 1, HistoryLimit)
    ELSE history

\* lines 1058-1060: redaction_history[-10:] when longer than 10
TrimHistory(history) ==
  IF Len(history) > HistoryLimit
    THEN SubSeq(history, Len(history) - HistoryLimit + 1, Len(history))
    ELSE history

\* the blob written back if the history were appended to the row as stored
\* at the moment of the write, not to the copy read at the start of the request
UpdatedMetadata_on_stored_row(document_metadata, entry) ==
  [metadata EXCEPT
     !.redacted_storage_path = TRUE,
     !.redaction_history = TrimHistory(Append(@, entry))]

\* lines 1040-1073: the blob written back, built from the request's own copy
\* of the metadata
UpdatedMetadata(document_metadata, entry) ==
  [document_metadata EXCEPT
     !.redacted_storage_path = TRUE,
     !.redaction_history = TrimHistory(Append(@, entry))]

\* lines 1075-1100: write status and the whole blob, answer success; an
\* exception of the update is HTTP 500 (lines 1104-1109) and writes nothing
ApplyUpdate(p) ==
  /\ req[p].pc = "update"
  /\ \E updated \in BOOLEAN :
       IF updated
         THEN /\ metadata' = UpdatedMetadata(req[p].document.metadata,
                                             HistoryEntry(req[p].timestamp))
              /\ status' = "processed"
              /\ req' = [req EXCEPT ![p].pc = "done", ![p].response = "ok"]
              /\ passes' = Append(passes, HistoryEntry(req[p].timestamp))
         ELSE /\ req' = [req EXCEPT ![p].pc = "done", ![p].response = "http_500"]
              /\ UNCHANGED <<status, metadata, passes>>
  /\ UNCHANGED <<extVars, detVars, storage, task, clock>>

ApplyStep(p) ==
  \/ ApplyRead(p)
  \/ ApplyDownload(p)
  \/ ApplyRedact(p)
  \/ ApplyUpload(p)
  \/ ApplyUpdate(p)

\* passes run one after another: one request slot serves them in turn
SeqRequests == {1}

NextApplySeq == \E p \in SeqRequests : ApplyBeginAlone(p) \/ ApplyStep(p)

SpecApplySeq == InitApply /\ [][NextApplySeq]_vars

\* passes of the same document overlap
NextApplyConc == \E p \in Requests : ApplyBegin(p) \/ ApplyStep(p)

SpecApplyConc == InitApply /\ [][NextApplyConc]_vars

(***************************************************************************)
(* A redaction surface and the regions of a pass                           *)
(***************************************************************************)
MaxPages == 2

MaxEntities == 2

MaxCustom == 2

\* entity texts of a pass: a name (with surrounding blanks, which strip()
\* removes) and a text of blanks only, which strip() empties
PassTexts == { <<" ","J","o","e">>, <<" ">> }

\* how many rectangles a page search may return
MatchCounts == {0, 1, 2}

\* a PDF page as the searches of the pass see it: how many rectangles
\* page.search_for returns for the name
Pages == [matches : MatchCounts]

PageLists == UNION {[1..n -> Pages] : n \in 1..MaxPages}

\* entities as stored in metadata.entities: id is the position in the list
EntityListsOf(texts) ==
  UNION { { [i \in 1..n |-> [id |-> i, text |-> t[i]]] : t \in [1..n -> texts] } :
          n \in 0..MaxEntities }

\* custom regions of a request: the page they are for, and whether building
\* and drawing the rectangle succeeds (lines 412-428) or raises
CustomPages == {0, 1}

CustomLists ==
  UNION {[1..n -> [page : CustomPages, valid : BOOLEAN]] : n \in 0..MaxCustom}

\* the rectangles page.search_for(entity_text) returns on a page
search_for(page_num, page, entity_text) ==
  { [page |-> page_num, text |-> entity_text, k |-> k] : k \in 1..page.matches }

\* one approved entity on one page if only search_results[0] were drawn
ApplyEntity_first_match_only(acc, page_num, page, entity) ==
  LET entity_text == strip(entity.text)
      search_results == search_for(page_num, page, entity_text)
  IN  IF entity_text = <<>> \/ search_results = {} THEN acc
      ELSE [acc EXCEPT !.painted = @ \cup {[page |-> page_num, text |-> entity_text, k |-> 1]},
                       !.total_redacted = @ + 1]

\* lines 378-407: one approved entity on one page; every rectangle found is
\* drawn and counted
ApplyEntity(acc, page_num, page, entity) ==
  LET entity_text == strip(entity.text)
      search_results == search_for(page_num, page, entity_text)
  IN  IF entity_text = <<>> THEN acc
      ELSE [acc EXCEPT !.painted = @ \cup search_results,
                       !.total_redacted = @ + Cardinality(search_results)]

RECURSIVE ApplyEntities(_, _, _, _, _)
ApplyEntities(acc, page_num, page, approved_entities, i) ==
  IF i > Len(approved_entities) THEN acc
  ELSE ApplyEntities(ApplyEntity(acc, page_num, page, approved_entities[i]),
                     page_num, page, approved_entities, i + 1)

\* lines 410-431: the custom regions of one page, in request order; there is
\* no handler inside the loop, so a region that raises ends the loop and the
\* exception reaches the handler of the page (line 437)
RECURSIVE ApplyCustom(_, _, _, _)
ApplyCustom(acc, page_num, custom_redactions_list, i) ==
  IF i > Len(custom_redactions_list) THEN acc
  ELSE LET redaction == custom_redactions_list[i]
       IN  IF redaction.page # page_num
             THEN ApplyCustom(acc, page_num, custom_redactions_list, i + 1)
           ELSE IF ~redaction.valid
             THEN [acc EXCEPT !.page_raised = TRUE]
           ELSE ApplyCustom(
                  [acc EXCEPT !.painted = @ \cup {[page |-> page_num, custom |-> i]},
                              !.total_redacted = @ + 1],
                  page_num, custom_redactions_list, i + 1)

\* one page if processed_pages counted only the pages on which a region was
\* painted, and failed_pages only the failing pages left without any
ApplyPage_counting_painted_pages(acc, page_num, page, approved_entities, custom_redactions_list) ==
  LET after_entities == ApplyEntities(acc, page_num, page, approved_entities, 1)
      after_custom == ApplyCustom(after_entities, page_num, custom_redactions_list, 1)
      painted_here == after_custom.total_redacted > acc.total_redacted
  IN  IF painted_here
        THEN [after_custom EXCEPT !.page_raised = FALSE, !.processed_pages = @ + 1]
      ELSE IF after_custom.page_raised
        THEN [after_custom EXCEPT !.page_raised = FALSE, !.failed_pages = @ + 1]
      ELSE after_custom

\* lines 372-439: one page; processed_pages counts the pages that reached
\* line 435, failed_pages those whose handler ran
ApplyPage(acc, page_num, page, approved_entities, custom_redactions_list) ==
  LET after_entities == ApplyEntities(acc, page_num, page, approved_entities, 1)
      after_custom == ApplyCustom(after_entities, page_num, custom_redactions_list, 1)
  IN  IF after_custom.page_raised
        THEN [after_custom EXCEPT !.page_raised = FALSE, !.failed_pages = @ + 1]
        ELSE [after_custom EXCEPT !.processed_pages = @ + 1]

RECURSIVE ApplyPages(_, _, _, _, _)
ApplyPages(acc, pages, approved_entities, custom_redactions_list, n) ==
  IF n > Len(pages) THEN acc
  ELSE ApplyPages(ApplyPage(acc, n - 1, pages[n], approved_entities, custom_redactions_list),
                  pages, approved_entities, custom_redactions_list, n + 1)

\* lines 359-365: the entities whose id is approved; none when no entity
\* list is passed
approved_entities_of(entities, approved_entity_ids) ==
  SelectSeq(entities, LAMBDA e : e.id \in approved_entity_ids)

\* a save that writes only the pages on which a search found something
saved_page_count_matched_only(pages) ==
  Cardinality({n \in DOMAIN pages : pages[n].matches > 0})

\* pdf_doc.save (line 443): the saved document keeps every page
saved_page_count(pages) == Len(pages)

\* lines 345-458 on an opened document: the painted rectangles, the saved
\* document and the statistics returned
apply_redactions_to_pages(pages, entities, approved_entity_ids, custom_redactions_list) ==
  LET acc == ApplyPages([painted |-> {}, total_redacted |-> 0, processed_pages |-> 0,
                         failed_pages |-> 0, page_raised |-> FALSE],
                        pages, approved_entities_of(entities, approved_entity_ids),
                        custom_redactions_list, 1)
  IN  [painted |-> acc.painted,
       page_count |-> saved_page_count(pages),
       stats |-> [total_redacted |-> acc.total_redacted,
                  total_pages |-> Len(pages),
                  processed_pages |-> acc.processed_pages,
                  failed_pages |-> acc.failed_pages]]

(***************************************************************************)
(* apply_redactions_to_pdf on an opened document                           *)
(***************************************************************************)
\* the requests of the pass: a document, the stored entities, the approved
\* ids (the first m entities) and the custom regions
ApplyInputsOf(texts) ==
  { [pc |-> "ready", pages |-> p, entities |-> e,
     approved_entity_ids |-> 1..m, custom_redactions |-> c] :
    p \in PageLists, e \in EntityListsOf(texts), m \in 0..MaxEntities,
    c \in CustomLists }

InitApplyPass ==
  /\ sess \in {s \in ApplyInputsOf(PassTexts) : Cardinality(s.approved_entity_ids) <= Len(s.entities)}
  /\ fx = FxIdle
  /\ thr = ThrIdle
  /\ ents = EntsIdle
  /\ raw = <<>>
  /\ det = DetIdle
  /\ status = "processed"
  /\ metadata = NoMetadata
  /\ storage = [redacted |-> "none"]
  /\ task = TaskIdle
  /\ req = [p \in Requests |-> ReqIdle]
  /\ clock = 0
  /\ passes = <<>>

\* apply_redactions_to_pdf (lines 338-458) once the bytes have opened
ApplyPass ==
  /\ sess.pc = "ready"
  /\ LET out == apply_redactions_to_pages(sess.pages, sess.entities,
                                          sess.approved_entity_ids,
                                          sess.custom_redactions)
     IN  sess' = [pc |-> "done", pages |-> sess.pages, entities |-> sess.entities,
                  approved_entity_ids |-> sess.approved_entity_ids,
                  custom_redactions |-> sess.custom_redactions,
                  painted |-> out.painted, page_count |-> out.page_count,
                  stats |-> out.stats]
  /\ UNCHANGED <<detVars, docVars, task, applyVars, fx, thr, ents>>

NextApplyPass == ApplyPass

SpecApplyPass == InitApplyPass /\ [][NextApplyPass]_vars

(***************************************************************************)
(* redact_document on a PDF or an image                                    *)
(***************************************************************************)
MaxFuzzy == 1

\* a PDF page as _redact_pdf sees it: the rectangles of the plain search,
\* whether the lower-cased page text holds the lower-cased entity text, and
\* the rectangles of the search with TEXT_PRESERVE_WHITESPACE (consulted only
\* when the plain search found nothing and the text holds the entity)
DocPages ==
  { [matches |-> k, in_text |-> TRUE, preserved |-> 0] : k \in MatchCounts \ {0} } \cup
  { [matches |-> 0, in_text |-> TRUE, preserved |-> f] : f \in 0..MaxFuzzy } \cup
  { [matches |-> 0, in_text |-> FALSE, preserved |-> 0] }

DocPageLists == UNION {[1..n -> DocPages] : n \in 1..MaxPages}

\* _try_fuzzy_match_redaction (lines 197-232): the number of rectangles it
\* paints; the second plain search repeats the one that found nothing
try_fuzzy_match_redaction(page) ==
  IF ~page.in_text THEN 0
  ELSE IF page.preserved > 0 THEN page.preserved
  ELSE page.matches

\* lines 124-174: one entity on one page
RedactPdfEntity(acc, page_num, page, entity) ==
  LET entity_text == strip(entity.text)
      entity_key == <<page_num, entity_text>>
      search_results == search_for(page_num, page, entity_text)
      redacted_with_fuzzy == try_fuzzy_match_redaction(page)
  IN  IF entity_text = <<>>
        THEN [acc EXCEPT !.entities_failed = Append(@, entity)]
      ELSE IF entity_key \in acc.processed_texts THEN acc
      ELSE IF search_results # {}
        THEN [acc EXCEPT !.painted = @ \cup search_results,
                         !.redacted_count = @ + Cardinality(search_results),
                         !.processed_texts = @ \cup {entity_key}]
      ELSE IF redacted_with_fuzzy > 0
        THEN [acc EXCEPT !.painted = @ \cup { [page |-> page_num, text |-> entity_text,
                                               fuzzy |-> k] : k \in 1..redacted_with_fuzzy },
                         !.redacted_count = @ + redacted_with_fuzzy,
                         !.processed_texts = @ \cup {entity_key}]
      ELSE [acc EXCEPT !.entities_failed = Append(@, entity)]

RECURSIVE RedactPdfEntities(_, _, _, _, _)
RedactPdfEntities(acc, page_num, page, entities, i) ==
  IF i > Len(entities) THEN acc
  ELSE RedactPdfEntities(RedactPdfEntity(acc, page_num, page, entities[i]),
                         page_num, page, entities, i + 1)

RECURSIVE RedactPdfPages(_, _, _, _)
RedactPdfPages(acc, pages, entities, n) ==
  IF n > Len(pages) THEN acc
  ELSE RedactPdfPages(RedactPdfEntities(acc, n - 1, pages[n], entities, 1),
                      pages, entities, n + 1)

\* _redact_pdf (lines 90-195) when nothing raises: what is painted, the saved
\* page count (doc.save keeps every page) and the counters
redact_pdf(pages, entities) ==
  LET acc == RedactPdfPages([painted |-> {}, redacted_count |-> 0,
                             processed_texts |-> {}, entities_failed |-> <<>>],
                            pages, entities, 1)
  IN  [painted |-> acc.painted,
       size |-> saved_page_count(pages),
       redacted_count |-> acc.redacted_count,
       entities_failed |-> acc.entities_failed]

\* the bbox of an entity given to _redact_image: absent, a dict or a list of
\* four numbers that draws, a dict whose rectangle makes the drawing raise,
\* or a value of another shape
BboxKinds == {"none", "dict", "list", "dict_raises", "other"}

ImageSizes == {<<4, 3>>, <<3, 4>>}

\* lines 261-300: one entity on the image
RedactImageEntity(acc, entity) ==
  IF entity.bbox \in {"none", "other", "dict_raises"}
    THEN [acc EXCEPT !.entities_failed = Append(@, entity)]
    ELSE [acc EXCEPT !.painted = @ \cup {[entity |-> entity.id]},
                     !.redacted_count = @ + 1]

RECURSIVE RedactImageEntities(_, _, _)
RedactImageEntities(acc, entities, i) ==
  IF i > Len(entities) THEN acc
  ELSE RedactImageEntities(RedactImageEntity(acc, entities[i]), entities, i + 1)

\* _redact_image (lines 243-315) when nothing raises outside the loop:
\* drawing on the opened image and saving it keeps image.size
redact_image(size, entities) ==
  LET acc == RedactImageEntities([painted |-> {}, redacted_count |-> 0,
                                  entities_failed |-> <<>>], entities, 1)
  IN  [painted |-> acc.painted,
       size |-> size,
       redacted_count |-> acc.redacted_count,
       entities_failed |-> acc.entities_failed]

ImageEntityLists ==
  UNION { { [i \in 1..n |-> [id |-> i, bbox |-> b[i]]] : b \in [1..n -> BboxKinds] } :
          n \in 0..MaxEntities }

\* the documents handed to redact_document: their format, their size (page
\* count or canvas) and their content
Documents ==
  { [fmt |-> "pdf", size |-> Len(p), pages |-> p] : p \in DocPageLists } \cup
  { [fmt |-> "image", size |-> s] : s \in ImageSizes }

\* redact_document (lines 18-88) on a document: the result the caller gets
\* and the artifact left at output_path
redact_document_on(document, entities, surface, copy_ok) ==
  LET inner == IF document.fmt = "pdf" THEN redact_pdf(document.pages, entities)
               ELSE redact_image(document.size, entities)
      result == redact_document(document.fmt, surface, copy_ok, Len(entities),
                                inner.redacted_count)
  IN  [result |-> result,
       painted |-> IF result.output = "redacted" THEN inner.painted ELSE {},
       output_size |-> IF result.output = "redacted" THEN inner.size
                       ELSE IF result.output = "original" THEN document.size
                       ELSE <<>>]

RedactInputsOf(texts) ==
  { [pc |-> "ready", document |-> d, entities |-> e, surface |-> s, copy_ok |-> c] :
    d \in Documents, e \in EntityListsOf(texts) \cup ImageEntityLists,
    s \in SurfaceOutcomes, c \in BOOLEAN }

InitRedactDoc ==
  /\ sess \in { s \in RedactInputsOf(PassTexts) :
                  \A i \in DOMAIN s.entities :
                    ("bbox" \in DOMAIN s.entities[i]) <=> (s.document.fmt = "image") }
  /\ fx = FxIdle
  /\ thr = ThrIdle
  /\ ents = EntsIdle
  /\ raw = <<>>
  /\ det = DetIdle
  /\ status = "processing"
  /\ metadata = NoMetadata
  /\ storage = [redacted |-> "none"]
  /\ task = TaskIdle
  /\ req = [p \in Requests |-> ReqIdle]
  /\ clock = 0
  /\ passes = <<>>

\* RedactionService.redact_document, one call
RedactDocument ==
  /\ sess.pc = "ready"
  /\ sess' = [pc |-> "done"]
             @@ redact_document_on(sess.document, sess.entities, sess.surface, sess.copy_ok)
             @@ sess
  /\ UNCHANGED <<detVars, docVars, task, applyVars, fx, thr, ents>>

NextRedactDoc == RedactDocument

SpecRedactDoc == InitRedactDoc /\ [][NextRedactDoc]_vars


(***************************************************************************)
(* _filter_header_labels applied to a list, and again to its own result    *)
(***************************************************************************)
MaxFilterLen == 2

\* entities as the filter reads them (text and label): a name, the same name
\* with blanks around it, a header word, a short text, dotted and plain
\* numbers tagged IDENTIFIER, a clock time and a word tagged TIME
FilterEntities ==
  { [text |-> <<"J","o","e">>, label |-> "PERSON"],
    [text |-> <<" ","J","o","e"," ">>, label |-> "PERSON"],
    [text |-> <<"T","o","t","a","l">>, label |-> "IDENTIFIER"],
    [text |-> <<"a","b">>, label |-> "PERSON"],
    [text |-> <<"1","2",".","5">>, label |-> "IDENTIFIER"],
    [text |-> <<"1","2","3","4","5">>, label |-> "IDENTIFIER"],
    [text |-> <<"1",".","2",".","3">>, label |-> "IDENTIFIER"],
    [text |-> <<"9",":","3","0">>, label |-> "TIME"],
    [text |-> <<"n","o","o","n">>, label |-> "TIME"] }

FilterLists == UNION {[1..n -> FilterEntities] : n \in 0..MaxFilterLen}

\* one call of _filter_header_labels (lines 146-247): the list it returns, or
\* the ValueError of float() at line 224 leaving the loop and the function
filter_header_labels_call(entities) ==
  IF FilterRaises(entities)
  THEN [raised |-> TRUE, filtered |-> <<>>]
  ELSE [raised |-> FALSE, filtered |-> filter_header_labels(entities)]

InitFilter ==
  /\ fx \in {[pc |-> "ready", X |-> x] : x \in FilterLists}
  /\ sess = SessIdle
  /\ thr = ThrIdle
  /\ ents = EntsIdle
  /\ raw = <<>>
  /\ det = DetIdle
  /\ status = "queued"
  /\ metadata = NoMetadata
  /\ storage = [redacted |-> "none"]
  /\ task = TaskIdle
  /\ req = [p \in Requests |-> ReqIdle]
  /\ clock = 0
  /\ passes = <<>>

\* filter(X)
FilterOnce ==
  /\ fx.pc = "ready"
  /\ fx' = [pc |-> "once", X |-> fx.X, once |-> filter_header_labels_call(fx.X)]
  /\ UNCHANGED <<detVars, docVars, task, applyVars, sess, thr, ents>>

\* filter(filter(X)), when the first call returned a list
FilterAgain ==
  /\ fx.pc = "once"
  /\ ~fx.once.raised
  /\ fx' = [pc |-> "twice", X |-> fx.X, once |-> fx.once,
            twice |-> filter_header_labels_call(fx.once.filtered)]
  /\ UNCHANGED <<detVars, docVars, task, applyVars, sess, thr, ents>>

NextFilter == FilterOnce \/ FilterAgain

SpecFilter == InitFilter /\ [][NextFilter]_vars

(***************************************************************************)
(* detect_pii on one text at two confidence thresholds                     *)
(***************************************************************************)
\* the text "Ann Lee Kim 2024" as the detectors may read it: what the spaCy
\* model finds (confidence fixed at 0.9, line 128), what the patterns find,
\* and the predictions of the transformer with their scores
SpacyFinds ==
  { [text |-> <<"A","n","n">>, label |-> "PERSON", confidence |-> 90,
     start_pos |-> 0, end_pos |-> 3, method |-> "spacy"],
    [text |-> <<"K","i","m">>, label |-> "PERSON", confidence |-> 90,
     start_pos |-> 8, end_pos |-> 11, method |-> "spacy"] }

RegexFinds ==
  { [text |-> <<"2","0","2","4">>, label |-> "DATE", confidence |-> 85,
     start_pos |-> 12, end_pos |-> 16, method |-> "regex"] }

HfPredictions ==
  { [text |-> <<"A","n","n"," ","L","e","e">>, label |-> "PERSON", confidence |-> 93,
     start_pos |-> 0, end_pos |-> 7, method |-> "huggingface"],
    [text |-> <<"L","e","e">>, label |-> "PERSON", confidence |-> 97,
     start_pos |-> 4, end_pos |-> 7, method |-> "huggingface"],
    [text |-> <<"K","i","m">>, label |-> "PERSON", confidence |-> 60,
     start_pos |-> 8, end_pos |-> 11, method |-> "huggingface"] }

Thresholds == {50, 85, 95}

\* the finds of one detector in the order of the text
RECURSIVE InTextOrder(_)
InTextOrder(finds) ==
  IF finds = {} THEN <<>>
  ELSE LET first == CHOOSE e \in finds : \A o \in finds : e.start_pos <= o.start_pos
       IN  <<first>> \o InTextOrder(finds \ {first})

Texts ==
  { [spacy |-> InTextOrder(s), regex |-> InTextOrder(r), hf |-> InTextOrder(h)] :
    s \in SUBSET SpacyFinds, r \in SUBSET RegexFinds, h \in SUBSET HfPredictions }

\* _detect_with_spacy (lines 116-136): the threshold is not used
detect_with_spacy(text, confidence_threshold) == text.spacy

\* _detect_with_regex (lines 248-368): takes no threshold
detect_with_regex(text) == text.regex

\* _detect_with_huggingface (lines 422-458): line 433 keeps score >= threshold
detect_with_huggingface(text, confidence_threshold) ==
  SelectSeq(text.hf, LAMBDA result : result.confidence >= confidence_threshold)

\* detect_pii(text, confidence_threshold), lines 46-114
detect_pii_of_text(text, confidence_threshold) ==
  detect_pii(detect_with_spacy(text, confidence_threshold)
             \o detect_with_regex(text)
             \o detect_with_huggingface(text, confidence_threshold))

InitThreshold ==
  /\ thr \in {c \in [pc : {"ready"}, text : Texts, t_low : Thresholds,
                        t_high : Thresholds] : c.t_high >= c.t_low}
  /\ sess = SessIdle
  /\ fx = FxIdle
  /\ ents = EntsIdle
  /\ raw = <<>>
  /\ det = DetIdle
  /\ status = "queued"
  /\ metadata = NoMetadata
  /\ storage = [redacted |-> "none"]
  /\ task = TaskIdle
  /\ req = [p \in Requests |-> ReqIdle]
  /\ clock = 0
  /\ passes = <<>>

\* detect_pii(text, t_low)
DetectLow ==
  /\ thr.pc = "ready"
  /\ thr' = [pc |-> "low", low |-> detect_pii_of_text(thr.text, thr.t_low)] @@ thr
  /\ UNCHANGED <<detVars, docVars, task, applyVars, sess, fx, ents>>

\* detect_pii(text, t_high)
DetectHigh ==
  /\ thr.pc = "low"
  /\ thr' = [pc |-> "both", high |-> detect_pii_of_text(thr.text, thr.t_high)] @@ thr
  /\ UNCHANGED <<detVars, docVars, task, applyVars, sess, fx, ents>>

NextThreshold == DetectLow \/ DetectHigh

SpecThreshold == InitThreshold /\ [][NextThreshold]_vars

(***************************************************************************)
(* The entity handlers of api/entities.py and the apply pass on the        *)
(* entities of one document row                                            *)
(***************************************************************************)
MaxEntityOps == 3

\* dict.get(key, default)
Get(d, key, default) == IF key \in DOMAIN d THEN d[key] ELSE default

\* {}
EmptyDict == [k \in {} |-> 0]

\* the keys update_entity_position copies (lines 224-231)
BoxKeys == {"x", "y", "width", "height"}

\* metadata.entities as process_document_task stored it (documents.py line
\* 438): two detected entities with their ids
StoredEntities ==
  << [id |-> 1, text |-> "Joe", label |-> "PERSON", method |-> "regex",
      start_pos |-> 0, end_pos |-> 3, user_approved |-> "None",
      is_redacted |-> "None", bounding_box |-> EmptyDict, updated_at |-> 0],
     [id |-> 2, text |-> "Acme", label |-> "ORGANIZATION", method |-> "huggingface",
      start_pos |-> 4, end_pos |-> 8, user_approved |-> "None",
      is_redacted |-> "None", bounding_box |-> EmptyDict, updated_at |-> 0] >>

\* the ids a request may name: the stored ones, the ones add_entity hands
\* out, and one that no entity has
EntityIds == 1..(Len(StoredEntities) + MaxEntityOps + 1)

\* request bodies; a body is a dict and may hold keys the handler never reads
ApprovalData ==
  { [user_approved |-> "True"],
    [user_approved |-> "False", is_redacted |-> "False"],
    [user_approved |-> "True", label |-> "EMAIL", text |-> "Zed"] }

PositionData ==
  { [x |-> 5],
    [x |-> 5, y |-> 6, width |-> 7, height |-> 8],
    [width |-> 9, start_pos |-> 1, end_pos |-> 2] }

EntityData ==
  { [is_redacted |-> "True"],
    [text |-> "Zed", label |-> "PERSON", start_pos |-> 9, end_pos |-> 12] }

\* lines 135-146: the index of the first entity with the id, 0 when none
entity_index_of(entities, entity_id) ==
  IF \E i \in DOMAIN entities : entities[i].id = entity_id
  THEN CHOOSE i \in DOMAIN entities :
         /\ entities[i].id = entity_id
         /\ \A j \in 1..(i - 1) : entities[j].id # entity_id
  ELSE 0

\* update_entity_approval, lines 125-158
update_entity_approval(entities, entity_id, approval_data, now) ==
  LET entity_index == entity_index_of(entities, entity_id)
  IN  [entities EXCEPT ![entity_index] =
         [@ EXCEPT !.user_approved = Get(approval_data, "user_approved", "None"),
                   !.is_redacted = Get(approval_data, "is_redacted", "True"),
                   !.updated_at = now]]

\* update_entity_position with entity.update(position_data) in place of the
\* four copied keys
update_entity_position_copying_all(entities, entity_id, position_data, now) ==
  LET entity_index == entity_index_of(entities, entity_id)
      entity == entities[entity_index]
  IN  [entities EXCEPT ![entity_index] =
         [k \in DOMAIN entity |->
            IF k = "updated_at" THEN now
            ELSE IF k \in DOMAIN position_data THEN position_data[k]
            ELSE entity[k]]]

\* update_entity_position, lines 217-238
update_entity_position(entities, entity_id, position_data, now) ==
  LET entity_index == entity_index_of(entities, entity_id)
      old == entities[entity_index].bounding_box
      bounding_box ==
        [k \in {b \in BoxKeys : b \in DOMAIN position_data \/ b \in DOMAIN old} |->
           IF k \in DOMAIN position_data THEN position_data[k] ELSE old[k]]
  IN  [entities EXCEPT ![entity_index] =
         [@ EXCEPT !.bounding_box = bounding_box, !.updated_at = now]]

\* delete_entity, lines 290-291: entities.pop(entity_index)
delete_entity(entities, entity_id) ==
  LET entity_index == entity_index_of(entities, entity_id)
  IN  SubSeq(entities, 1, entity_index - 1)
        \o SubSeq(entities, entity_index + 1, Len(entities))

\* add_entity, lines 341-358; new_id stands for uuid4()
new_entity(entity_data, new_id) ==
  [id |-> new_id,
   text |-> Get(entity_data, "text", "Manual Redaction"),
   label |-> Get(entity_data, "label", "MANUAL"),
   method |-> "manual",
   start_pos |-> Get(entity_data, "start_pos", 0),
   end_pos |-> Get(entity_data, "end_pos", 0),
   user_approved |-> Get(entity_data, "user_approved", "True"),
   is_redacted |-> Get(entity_data, "is_redacted", "True"),
   bounding_box |-> Get(entity_data, "bounding_box", EmptyDict),
   updated_at |-> 0]

add_entity(entities, entity_data, new_id) ==
  Append(entities, new_entity(entity_data, new_id))

\* what creation fixed of an entity
Created(entity) ==
  [text |-> entity.text, start_pos |-> entity.start_pos,
   end_pos |-> entity.end_pos, label |-> entity.label]

InitEntities ==
  /\ ents = [pc |-> "serving", entities |-> StoredEntities,
             created |-> [i \in {StoredEntities[k].id : k \in DOMAIN StoredEntities} |->
                            Created(StoredEntities[CHOOSE k \in DOMAIN StoredEntities :
                                                     StoredEntities[k].id = i])],
             ops |-> 0, last |-> "none", response |-> 0]
  /\ sess = SessIdle
  /\ fx = FxIdle
  /\ thr = ThrIdle
  /\ raw = <<>>
  /\ det = DetIdle
  /\ status = "processed"
  /\ metadata = NoMetadata
  /\ storage = [redacted |-> "none"]
  /\ task = TaskIdle
  /\ req = [p \in Requests |-> ReqIdle]
  /\ clock = 0
  /\ passes = <<>>

\* a handler that found no entity: HTTP 404 (lines 145-146, 213-214, 286-287)
EntityNotFound(handler) ==
  ents' = [ents EXCEPT !.ops = @ + 1, !.last = handler, !.response = 404]

\* PUT /api/entities/{entity_id}/approval
UpdateEntityApproval ==
  /\ ents.pc = "serving" /\ ents.ops < MaxEntityOps
  /\ \E entity_id \in EntityIds, approval_data \in ApprovalData :
       IF entity_index_of(ents.entities, entity_id) = 0
       THEN EntityNotFound("approval")
       ELSE ents' = [ents EXCEPT
                       !.entities = update_entity_approval(@, entity_id, approval_data,
                                                           ents.ops + 1),
                       !.ops = @ + 1, !.last = "approval", !.response = 200]
  /\ UNCHANGED <<detVars, docVars, task, applyVars, sess, fx, thr>>

\* PUT /api/entities/{entity_id}/position
UpdateEntityPosition ==
  /\ ents.pc = "serving" /\ ents.ops < MaxEntityOps
  /\ \E entity_id \in EntityIds, position_data \in PositionData :
       IF entity_index_of(ents.entities, entity_id) = 0
       THEN EntityNotFound("position")
       ELSE ents' = [ents EXCEPT
                       !.entities = update_entity_position(@, entity_id, position_data,
                                                           ents.ops + 1),
                       !.ops = @ + 1, !.last = "position", !.response = 200]
  /\ UNCHANGED <<detVars, docVars, task, applyVars, sess, fx, thr>>

\* DELETE /api/entities/{entity_id}
DeleteEntity ==
  /\ ents.pc = "serving" /\ ents.ops < MaxEntityOps
  /\ \E entity_id \in EntityIds :
       IF entity_index_of(ents.entities, entity_id) = 0
       THEN EntityNotFound("delete")
       ELSE ents' = [ents EXCEPT !.entities = delete_entity(@, entity_id),
                                 !.ops = @ + 1, !.last = "delete", !.response = 200]
  /\ UNCHANGED <<detVars, docVars, task, applyVars, sess, fx, thr>>

\* POST /api/entities/{document_id}/entities: the new id is fresh
AddEntity ==
  /\ ents.pc = "serving" /\ ents.ops < MaxEntityOps
  /\ \E entity_data \in EntityData :
       LET new_id == Len(StoredEntities) + Cardinality(DOMAIN ents.created
                                                        \ (1..Len(StoredEntities))) + 1
           entity == new_entity(entity_data, new_id)
       IN  ents' = [ents EXCEPT !.entities = add_entity(@, entity_data, new_id),
                                !.created = (new_id :> Created(entity)) @@ @,
                                !.ops = @ + 1, !.last = "add", !.response = 200]
  /\ UNCHANGED <<detVars, docVars, task, applyVars, sess, fx, thr>>

\* POST apply-redaction (documents.py): the entities are read at line 971,
\* handed to apply_redactions_to_pdf, which reads their id and text only, and
\* written back inside the metadata read at line 1040
ApplyOnEntities ==
  /\ ents.pc = "serving" /\ ents.ops < MaxEntityOps
  /\ LET document == [entities |-> ents.entities]
         updated_metadata == document
     IN  ents' = [ents EXCEPT !.entities = updated_metadata.entities,
                              !.ops = @ + 1, !.last = "apply", !.response = 200]
  /\ UNCHANGED <<detVars, docVars, task, applyVars, sess, fx, thr>>

NextEntities ==
  \/ UpdateEntityApproval
  \/ UpdateEntityPosition
  \/ DeleteEntity
  \/ AddEntity
  \/ ApplyOnEntities

SpecEntities == InitEntities /\ [][NextEntities]_vars

(***************************************************************************)
(* Consolidation of raw lists that hold malformed entities                 *)
(***************************************************************************)
MaxMalformedLen == 3

\* well-formed raw entities
WellFormedEntities ==
  { [text |-> <<"J","o","e">>, label |-> "PERSON", confidence |-> 85,
     start_pos |-> 0, end_pos |-> 3, method |-> "regex"],
    [text |-> <<"A","c","m","e">>, label |-> "ORGANIZATION", confidence |-> 99,
     start_pos |-> 6, end_pos |-> 10, method |-> "huggingface"] }

\* raw entities with an inverted or empty span
InvertedSpanEntities ==
  { [text |-> <<"K","i","m">>, label |-> "PERSON", confidence |-> 90,
     start_pos |-> 15, end_pos |-> 12, method |-> "spacy"],
    [text |-> <<"L","e","e">>, label |-> "PERSON", confidence |-> 90,
     start_pos |-> 20, end_pos |-> 20, method |-> "spacy"] }

\* a raw entity whose dict has no 'text' key
TextlessEntities ==
  { [label |-> "PERSON", confidence |-> 90, start_pos |-> 25, end_pos |-> 28,
     method |-> "spacy"] }

HasText(entity) == "text" \in DOMAIN entity

InvertedSpan(entity) == entity.start_pos >= entity.end_pos

Malformed(entity) == ~HasText(entity) \/ InvertedSpan(entity)

MalformedLists ==
  { l \in UNION {[1..n -> WellFormedEntities \cup InvertedSpanEntities \cup TextlessEntities] :
                 n \in 1..MaxMalformedLen} :
    \E i \in DOMAIN l : Malformed(l[i]) }

\* detect_pii lines 88-114 on any list of dicts: entity['text'] at line 499
\* raises KeyError for a dict without the key, in the first iteration that
\* meets one, and nothing handles it in _merge_overlapping_entities or in
\* detect_pii
detect_pii_of_dicts(entities) ==
  IF \E i \in DOMAIN entities : ~HasText(entities[i])
  THEN [merged |-> <<>>, deduplicated |-> <<>>, raised |-> TRUE, entities |-> <<>>]
  ELSE detect_pii(entities)

InitMalformed ==
  /\ raw \in MalformedLists
  /\ det = DetIdle
  /\ status = "queued"
  /\ metadata = NoMetadata
  /\ storage = [redacted |-> "none"]
  /\ task = TaskIdle
  /\ req = [p \in Requests |-> ReqIdle]
  /\ clock = 0
  /\ passes = <<>>
  /\ ExtIdle

\* lines 88-114 on a list with a malformed entity
DetectPiiOfDicts ==
  /\ det.pc = "idle"
  /\ det' = [pc |-> "done"] @@ detect_pii_of_dicts(raw)
  /\ UNCHANGED <<extVars, raw, docVars, task, applyVars>>

NextMalformed == DetectPiiOfDicts

SpecMalformed == InitMalformed /\ [][NextMalformed]_vars

(***************************************************************************)
(* The fill of the painted regions, by redaction style                     *)
(***************************************************************************)
\* the documented styles and a value that is none of them
Styles == {"black", "white", "blur", "pixelate"}

\* _redact_pdf lines 146-153: the fill drawn on a rectangle of the exact
\* search; no branch draws for another value
redact_pdf_fill(redaction_style) ==
  IF redaction_style = "black" THEN "black"
  ELSE IF redaction_style = "white" THEN "white"
  ELSE IF redaction_style = "blur" THEN "gray70"
  ELSE "none"

\* _get_fill_color (lines 234-241), used by _try_fuzzy_match_redaction
get_fill_color(redaction_style) ==
  IF redaction_style = "white" THEN "white"
  ELSE IF redaction_style = "blur" THEN "gray70"
  ELSE "black"

\* _redact_image lines 284-292
redact_image_fill(redaction_style) ==
  IF redaction_style = "black" THEN "black"
  ELSE IF redaction_style = "white" THEN "white"
  ELSE IF redaction_style = "blur" THEN "blurred"
  ELSE "none"

\* apply_redactions_to_pdf lines 392-395 and 423-426
apply_fill(redaction_style) ==
  IF redaction_style = "blur" THEN "gray80" ELSE "black"

\* the regions that reached a drawing statement, with what was drawn
Drawn(fill_of) ==
  { d \in { [region |-> r, fill |-> fill_of[r]] : r \in DOMAIN fill_of } :
      d.fill # "none" }

\* redact_document (lines 18-88) with its redaction_style
redact_document_styled(document, entities, surface, copy_ok, redaction_style) ==
  LET out == redact_document_on(document, entities, surface, copy_ok)
      fill_of == [r \in out.painted |->
                    IF document.fmt = "image" THEN redact_image_fill(redaction_style)
                    ELSE IF "fuzzy" \in DOMAIN r THEN get_fill_color(redaction_style)
                    ELSE redact_pdf_fill(redaction_style)]
  IN  [drawn |-> Drawn(fill_of)] @@ out

\* apply_redactions_to_pdf (lines 338-458) with its redaction_style
apply_redactions_styled(pages, entities, approved_entity_ids, custom_redactions_list, redaction_style) ==
  LET out == apply_redactions_to_pages(pages, entities, approved_entity_ids,
                                       custom_redactions_list)
      fill_of == [r \in out.painted |-> apply_fill(redaction_style)]
  IN  [drawn |-> Drawn(fill_of)] @@ out

\* one-page documents and requests in every style
StyledRedactInputs ==
  { [pc |-> "ready", kind |-> "redact", redaction_style |-> st, document |-> d,
     entities |-> e] :
    st \in Styles,
    d \in { [fmt |-> "pdf", size |-> 1, pages |-> <<p>>] : p \in DocPages },
    e \in EntityListsOf(PassTexts) }
  \cup
  { [pc |-> "ready", kind |-> "redact", redaction_style |-> st, document |-> d,
     entities |-> e] :
    st \in Styles,
    d \in { [fmt |-> "image", size |-> s] : s \in ImageSizes },
    e \in ImageEntityLists }

StyledApplyInputs ==
  { [pc |-> "ready", kind |-> "apply", redaction_style |-> st, pages |-> <<p>>,
     entities |-> e, approved_entity_ids |-> 1..Len(e), custom_redactions |-> c] :
    st \in Styles, p \in Pages, e \in EntityListsOf(PassTexts),
    c \in { <<>>, <<[page |-> 0, valid |-> TRUE]>> } }

InitStyle ==
  /\ sess \in StyledRedactInputs \cup StyledApplyInputs
  /\ fx = FxIdle
  /\ thr = ThrIdle
  /\ ents = EntsIdle
  /\ raw = <<>>
  /\ det = DetIdle
  /\ status = "processed"
  /\ metadata = NoMetadata
  /\ storage = [redacted |-> "none"]
  /\ task = TaskIdle
  /\ req = [p \in Requests |-> ReqIdle]
  /\ clock = 0
  /\ passes = <<>>

\* redact_document(input_path, output_path, entities, redaction_style)
RedactDocumentStyled ==
  /\ sess.pc = "ready" /\ sess.kind = "redact"
  /\ sess' = [pc |-> "done"]
             @@ redact_document_styled(sess.document, sess.entities, "ok", TRUE,
                                       sess.redaction_style)
             @@ sess
  /\ UNCHANGED <<detVars, docVars, task, applyVars, fx, thr, ents>>

\* apply_redactions_to_pdf(file_bytes, redactions, document_id, redaction_style, entities)
ApplyPassStyled ==
  /\ sess.pc = "ready" /\ sess.kind = "apply"
  /\ sess' = [pc |-> "done"]
             @@ apply_redactions_styled(sess.pages, sess.entities, sess.approved_entity_ids,
                                        sess.custom_redactions, sess.redaction_style)
             @@ sess
  /\ UNCHANGED <<detVars, docVars, task, applyVars, fx, thr, ents>>

NextStyle == RedactDocumentStyled \/ ApplyPassStyled

SpecStyle == InitStyle /\ [][NextStyle]_vars

(***************************************************************************)
(* The automatic pass and apply_redaction requests on the same document    *)
(***************************************************************************)
MaxMixedPasses == 1

\* an apply-redaction request arrives for the uploaded document, whatever
\* the background task is doing: the endpoint does not look at the status
ApplyBeginDuringTask(p) ==
  /\ ~InFlight(p)
  /\ clock < MaxMixedPasses
  /\ req' = [req EXCEPT ![p] = [ReqIdle EXCEPT !.pc = "read"]]
  /\ UNCHANGED <<extVars, detVars, docVars, task, clock, passes>>

\* upload_document (line 170) has queued process_document_task; requests
\* of apply_redaction are served while it runs
NextMixed ==
  \/ NextAuto
  \/ \E p \in SeqRequests : ApplyBeginDuringTask(p) \/ ApplyStep(p)

SpecMixed == InitAuto /\ [][NextMixed]_vars

(***************************************************************************)
(* apply_redaction requests with the document remembered as it was when    *)
(* the request arrived                                                     *)
(***************************************************************************)
MaxWatchedPasses == 2

\* the row and the latest redacted object as the request finds them
DocumentState == [status |-> status, metadata |-> metadata, storage |-> storage]

\* a request arrives while no other is being served; sess keeps the
\* document as it is at that moment
ApplyBeginWatched(p) ==
  /\ ~InFlight(p)
  /\ clock < MaxWatchedPasses
  /\ req' = [req EXCEPT ![p] = [ReqIdle EXCEPT !.pc = "read"]]
  /\ sess' = [pc |-> "watching", before |-> DocumentState]
  /\ UNCHANGED <<fx, thr, ents, detVars, docVars, task, clock, passes>>

NextApplyWatched == \E p \in SeqRequests : ApplyBeginWatched(p) \/ ApplyStep(p)

SpecApplyWatched == InitApply /\ [][NextApplyWatched]_vars

(***************************************************************************)
(* Entity edits served at the same time: every handler of entities.py      *)
(* selects the row, changes its own copy of metadata.entities and writes   *)
(* the whole blob back                                                     *)
(***************************************************************************)
MaxEditors == 2

Editors == 1..MaxEditors

EditHandlers == {"approval", "position", "delete", "add"}

EditIdle ==
  [pc |-> "idle", handler |-> "none", entity_id |-> 0, data |-> EmptyDict,
   entities |-> <<>>, read_at |-> 0, wrote_at |-> 0, response |-> 0]

\* the request bodies of a handler; DELETE has none
EditData(handler) ==
  CASE handler = "approval" -> ApprovalData
    [] handler = "position" -> PositionData
    [] handler = "add" -> EntityData
    [] OTHER -> {EmptyDict}

\* the entity a request is about: the path parameter, or the uuid4() of
\* add_entity (line 341), which differs from request to request
EditTargets(handler, p) ==
  IF handler = "add" THEN {Len(StoredEntities) + p}
  ELSE {StoredEntities[k].id : k \in DOMAIN StoredEntities}

\* the list each handler builds from the copy it read
edited_entities(edit, now) ==
  CASE edit.handler = "approval" ->
         update_entity_approval(edit.entities, edit.entity_id, edit.data, now)
    [] edit.handler = "position" ->
         update_entity_position(edit.entities, edit.entity_id, edit.data, now)
    [] edit.handler = "delete" -> delete_entity(edit.entities, edit.entity_id)
    [] OTHER -> add_entity(edit.entities, edit.data, edit.entity_id)

InitEntityEdits ==
  /\ ents = [pc |-> "serving", entities |-> StoredEntities, ops |-> 0,
             edits |-> [p \in Editors |-> EditIdle]]
  /\ sess = SessIdle
  /\ fx = FxIdle
  /\ thr = ThrIdle
  /\ raw = <<>>
  /\ det = DetIdle
  /\ status = "processed"
  /\ metadata = NoMetadata
  /\ storage = [redacted |-> "none"]
  /\ task = TaskIdle
  /\ req = [p \in Requests |-> ReqIdle]
  /\ clock = 0
  /\ passes = <<>>

\* the select of the handler (lines 130, 199, 273, 332) and the search for
\* the entity in the rows read; HTTP 404 when it is not there
EntityEditRead(p) ==
  /\ ents.edits[p].pc = "idle"
  /\ \E handler \in EditHandlers :
       \E entity_id \in EditTargets(handler, p), data \in EditData(handler) :
         LET found == handler = "add" \/ entity_index_of(ents.entities, entity_id) # 0
         IN  ents' = [ents EXCEPT
                        !.ops = @ + 1,
                        !.edits[p] =
                          [pc |-> IF found THEN "write" ELSE "done",
                           handler |-> handler, entity_id |-> entity_id,
                           data |-> data, entities |-> ents.entities,
                           read_at |-> ents.ops + 1, wrote_at |-> 0,
                           response |-> IF found THEN 0 ELSE 404]]
  /\ UNCHANGED <<detVars, docVars, task, applyVars, sess, fx, thr>>

\* the update of the handler (lines 156-158, 236-238, 298-300, 364-366):
\* metadata with the handler's own list replaces the stored blob
EntityEditWrite(p) ==
  /\ ents.edits[p].pc = "write"
  /\ ents' = [ents EXCEPT
                !.ops = @ + 1,
                !.entities = edited_entities(ents.edits[p], ents.ops + 1),
                !.edits[p].pc = "done",
                !.edits[p].wrote_at = ents.ops + 1,
                !.edits[p].response = 200]
  /\ UNCHANGED <<detVars, docVars, task, applyVars, sess, fx, thr>>

NextEntityEdits == \E p \in Editors : EntityEditRead(p) \/ EntityEditWrite(p)

SpecEntityEdits == InitEntityEdits /\ [][NextEntityEdits]_vars
(***************************************************************************)
(* Properties of consolidation (SpecDetect)                                *)
(***************************************************************************)
DetectReturned == det.pc = "done" /\ ~det.raised

\* the overlap predicate of the specification: closed intervals intersect
SpansOverlap(a, b) == a.start_pos <= b.end_pos /\ b.start_pos <= a.end_pos

\* normalize of the specification: case-fold, then trim
CaseFoldTrim(text) == strip(lower(text))

GroupKey(e) == <<CaseFoldTrim(e.text), e.label>>

\* C1: no two distinct entities of the consolidated output of detect_pii
\* have overlapping spans.
C1_NoOverlapInOutput ==
  DetectReturned =>
    \A i, j \in DOMAIN det.entities :
      i # j => ~SpansOverlap(det.entities[i], det.entities[j])

\* C2: no two entities of the consolidated output of detect_pii share the
\* key (lower-cased and trimmed text, label).
C2_NoDuplicateKeys ==
  DetectReturned =>
    \A i, j \in DOMAIN det.entities :
      i # j => GroupKey(det.entities[i]) # GroupKey(det.entities[j])

C2_Witness ==
  /\ DetectReturned
  /\ Len(det.entities) >= 2
  /\ \E i, j \in DOMAIN raw :
       /\ i # j
       /\ raw[i].text # raw[j].text
       /\ GroupKey(raw[i]) = GroupKey(raw[j])
       /\ \E k \in DOMAIN det.entities : GroupKey(det.entities[k]) = GroupKey(raw[i])

ExactlyOneRegex(a, b) == (a.method = "regex") # (b.method = "regex")

InSeq(e, s) == \E i \in DOMAIN s : s[i] = e

\* C3: of two overlapping raw entities of which exactly one comes from the
\* pattern method, the overlap merge keeps the pattern one and discards the
\* other, whatever the confidences and the input order.
C3_PatternWinsOverlap ==
  (det.pc = "done" /\ Len(raw) = 2 /\ SpansOverlap(raw[1], raw[2])
     /\ ExactlyOneRegex(raw[1], raw[2])) =>
    \A i \in 1..2 :
      InSeq(raw[i], det.merged) <=> raw[i].method = "regex"

\* C4: an entity of the consolidated output has the highest confidence of
\* all raw entities of its key group, and it is the only one of its group.
C4_GroupBestOnly ==
  DetectReturned =>
    \A k \in DOMAIN det.entities :
      /\ \A i \in DOMAIN raw :
           GroupKey(raw[i]) = GroupKey(det.entities[k])
             => raw[i].confidence <= det.entities[k].confidence
      /\ \A j \in DOMAIN det.entities :
           j # k => GroupKey(det.entities[j]) # GroupKey(det.entities[k])

(***************************************************************************)
(* Properties of the automatic pass (SpecAuto)                             *)
(***************************************************************************)
\* redact_document failed fatally inside the task: it raised, or it fell
\* back to copying the original
RedactionFailedFatally ==
  task.redaction.called /\ (task.redaction.raised \/ task.redaction.error)

\* C5: after the automatic pass, when redaction failed fatally and the
\* stored redacted artifact is the unredacted original, the document is not
\* 'processed' unless its metadata carries an error flag.
C5_UnredactedNeverSilentlyProcessed ==
  (task.pc = "done" /\ RedactionFailedFatally /\ storage.redacted = "original"
     /\ status = "processed")
    => metadata.error

\* C6: redact_document on an existing input of a supported format whose
\* surface cannot be opened or processed (the output path being writable)
\* raises nothing, leaves a copy of the input at output_path and returns
\* redacted_entities = 0 with an 'error' entry.
C6_FallbackCopyOnSurfaceFailure ==
  (task.redaction.called /\ task.redaction.fmt \in {"pdf", "image"}
     /\ task.redaction.surface # "ok" /\ task.redaction.copy_ok)
    => /\ ~task.redaction.raised
       /\ task.redaction.output = "original"
       /\ task.redaction.redacted_entities = 0
       /\ task.redaction.error

StatusMachine ==
  { <<"queued", "processing">>, <<"processing", "processed">>,
    <<"processing", "failed">> }

\* C8: within the automatic pass the status only moves queued -> processing
\* -> one of processed or failed; in particular a pass that has written
\* 'failed' never writes 'processed' afterwards.
C8_FailedIsTerminal ==
  [][status' # status => <<status, status'>> \in StatusMachine]_vars

(***************************************************************************)
(* Properties of the apply pass (SpecApplySeq, SpecApplyConc)              *)
(***************************************************************************)
OpenFailed(p) == req[p].pc = "done" /\ ~req[p].open_ok

LastN(s, n) == IF Len(s) > n THEN SubSeq(s, Len(s) - n + 1, Len(s)) ELSE s

\* C9: after passes run one after another, redaction_history holds the
\* entries of the most recent min(n, 10) completed passes, in the order in
\* which they were appended.
C9_HistoryIsLastTen ==
  /\ Len(metadata.redaction_history) <= HistoryLimit
  /\ metadata.redaction_history = LastN(passes, HistoryLimit)

C9_Witness ==
  /\ Len(passes) > HistoryLimit
  /\ Len(metadata.redaction_history) = HistoryLimit
  /\ metadata.redaction_history[1] # passes[1]

Succeeded(p) == req[p].pc = "done" /\ req[p].response = "ok"

InHistory(p) == InSeq(HistoryEntry(req[p].timestamp), metadata.redaction_history)

\* two finished passes that both read the blob before either wrote it
ReadSameBlob(p, q) ==
  /\ p # q
  /\ Succeeded(p) /\ Succeeded(q)
  /\ req[p].document.metadata = req[q].document.metadata

\* C10: two passes that overlap on one document (both read the metadata
\* blob before either wrote it back) finish with the history entry of
\* exactly one of them stored: the last writer wins.
C10_LastWriterWins ==
  \A p, q \in Requests :
    ReadSameBlob(p, q) => (InHistory(p) # InHistory(q))

C10_Witness ==
  \E p, q \in Requests :
    ReadSameBlob(p, q) /\ InHistory(q) /\ ~InHistory(p)

(***************************************************************************)
(* Properties of one pass over a surface (SpecApplyPass, SpecRedactDoc)    *)
(***************************************************************************)
SessDone == sess.pc = "done"

\* the stored entities the pass is asked to paint and that have a text
ApprovedWithText ==
  { i \in DOMAIN sess.entities :
      /\ sess.entities[i].id \in sess.approved_entity_ids
      /\ strip(sess.entities[i].text) # <<>> }

RECURSIVE MatchesUpTo(_, _)
MatchesUpTo(pages, n) == IF n = 0 THEN 0 ELSE MatchesUpTo(pages, n - 1) + pages[n].matches

CustomPainted == { r \in sess.painted : "custom" \in DOMAIN r }

\* C11: in an apply pass every rectangle the page search finds for an
\* approved entity is painted, and total_redacted counts each of the k
\* rectangles of each approved entity on each page exactly once (besides
\* the custom regions painted).
C11_EveryMatchPaintedAndCounted ==
  SessDone =>
    /\ \A i \in ApprovedWithText : \A n \in DOMAIN sess.pages :
         \A k \in 1..sess.pages[n].matches :
           [page |-> n - 1, text |-> strip(sess.entities[i].text), k |-> k] \in sess.painted
    /\ sess.stats.total_redacted =
         Cardinality(ApprovedWithText) * MatchesUpTo(sess.pages, Len(sess.pages))
           + Cardinality(CustomPainted)

C11_Witness ==
  /\ SessDone
  /\ Cardinality(ApprovedWithText) = 1
  /\ Len(sess.pages) = 1
  /\ sess.pages[1].matches = 2
  /\ sess.custom_redactions = <<>>
  /\ sess.stats.total_redacted = 2

\* C13: a region whose application fails is the only one skipped: every
\* valid custom region of a page of the document is painted, whatever
\* happened to the regions before it, and the pass returns.
C13_RegionFailureIsLocal ==
  SessDone =>
    \A i \in DOMAIN sess.custom_redactions :
      LET redaction == sess.custom_redactions[i]
      IN  (redaction.valid /\ redaction.page < Len(sess.pages))
            => [page |-> redaction.page, custom |-> i] \in sess.painted

\* approved entities for which no search finds a rectangle on any page
Unresolved ==
  { i \in ApprovedWithText : MatchesUpTo(sess.pages, Len(sess.pages)) = 0 }

\* C14: an approved entity no page holds is counted as unresolved in the
\* statistics the pass returns, adds nothing to total_redacted, and the
\* pass completes.
C14_UnresolvedSurfacedInStats ==
  (SessDone /\ Unresolved # {}) =>
    /\ "unresolved" \in DOMAIN sess.stats
    /\ sess.stats.unresolved = Cardinality(Unresolved)
    /\ sess.stats.total_redacted = Cardinality(CustomPainted)

C17_RedactedAtMostTotal ==
  (SessDone /\ ~sess.result.raised)
    => sess.result.redacted_entities <= sess.result.total_entities


\* the decision the filter takes on an entity alone: it is returned by the
\* call on the one-element list
KeptAlone(e) ==
  LET r == filter_header_labels_call(<<e>>)
  IN  ~r.raised /\ r.filtered = <<e>>

\* C15: the filter returns, for every list X, the sub-list of X (same order,
\* entities unmodified) of the entities it keeps when given alone, and the
\* filter applied to that result returns the same list again.
C15_FilterIdempotentSublist ==
  /\ fx.pc \in {"once", "twice"} =>
       /\ ~fx.once.raised
       /\ fx.once.filtered = SelectSeq(fx.X, KeptAlone)
  /\ fx.pc = "twice" =>
       /\ ~fx.twice.raised
       /\ fx.twice.filtered = fx.once.filtered

\* C16: for thresholds t_high >= t_low, detect_pii(text, t_high) returns no
\* more entities than detect_pii(text, t_low).
C16_HigherThresholdFewerOrEqual ==
  thr.pc = "both" =>
    /\ ~thr.low.raised /\ ~thr.high.raised
    /\ Len(thr.high.entities) <= Len(thr.low.entities)

\* C18: after any sequence of entity operations and apply passes, the text,
\* start_pos, end_pos and label of every stored entity equal their values at
\* creation.
C18_CreationFieldsNeverChange ==
  ents.pc = "serving" =>
    \A i \in DOMAIN ents.entities :
      /\ ents.entities[i].id \in DOMAIN ents.created
      /\ Created(ents.entities[i]) = ents.created[ents.entities[i].id]

\* a detected entity approved and then moved by a body that also holds span
\* keys, in a document to which an entity was added
C18_Witness ==
  /\ ents.pc = "serving"
  /\ ents.last = "position" /\ ents.response = 200
  /\ \E i \in DOMAIN ents.entities :
       /\ DOMAIN ents.entities[i].bounding_box = {"width"}
       /\ ents.entities[i].updated_at = MaxEntityOps
       /\ ents.entities[i].start_pos = 0
       /\ ents.entities[i].user_approved = "True"
  /\ Len(ents.entities) = 3

\* C19: a malformed raw entity (no text, or start_pos >= end_pos) given to
\* consolidation is absent from the output and does not abort it: what is
\* returned is the consolidation of the well-formed entities of the list.
C19_MalformedRejectedWithoutAbort ==
  det.pc = "done" =>
    /\ ~det.raised
    /\ \A i \in DOMAIN det.entities : ~Malformed(det.entities[i])
    /\ det.entities = detect_pii(SelectSeq(raw, LAMBDA e : ~Malformed(e))).entities

\* the method priority PATTERN > STATISTICAL_NER > TRANSFORMER_NER > MANUAL
MethodPriority == <<"regex", "spacy", "huggingface", "manual">>

Rank(method) == CHOOSE i \in DOMAIN MethodPriority : MethodPriority[i] = method

\* of two entities, the one of the higher method priority, the first when the
\* methods are equal
TieWinner(first, second) ==
  IF Rank(second.method) < Rank(first.method) THEN second ELSE first

\* C20: when consolidation is given two entities of equal confidence that
\* are same-key duplicates or have overlapping spans, it keeps the one of the
\* higher method priority and, for equal methods, the one that came first in
\* the input list.
C20_TiesBrokenByMethodThenOrder ==
  /\ det.pc = "done"
  /\ Len(raw) = 2
  /\ raw[1].confidence = raw[2].confidence
  /\ GroupKey(raw[1]) = GroupKey(raw[2]) \/ SpansOverlap(raw[1], raw[2])
  => det.deduplicated = <<TieWinner(raw[1], raw[2])>>

\* the distinct literal texts of the approved entities
ApprovedTexts == { strip(sess.entities[i].text) : i \in ApprovedWithText }

\* C21: within one pass a literal entity text is processed at most once per
\* page: approved entities with the same text have the occurrences of that
\* text counted once, so total_redacted is the number of rectangles of the
\* distinct texts (besides the custom regions painted).
C21_SameTextCountedOncePerPage ==
  SessDone =>
    sess.stats.total_redacted =
      Cardinality(ApprovedTexts) * MatchesUpTo(sess.pages, Len(sess.pages))
        + Cardinality(CustomPainted)

\* redact_document returned the painted PDF
RedactedPdf ==
  /\ SessDone
  /\ sess.document.fmt = "pdf"
  /\ sess.result.output = "redacted"

\* C22: on a page where the exact search of an entity text returns no
\* rectangle while the page text holds the text case-insensitively, the
\* fallback yields at least one region of that entity on that page.
C22_FallbackYieldsRegion ==
  RedactedPdf =>
    \A n \in DOMAIN sess.document.pages : \A i \in DOMAIN sess.entities :
      LET page == sess.document.pages[n]
          entity_text == strip(sess.entities[i].text)
      IN  (entity_text # <<>> /\ page.matches = 0 /\ page.in_text)
            => \E r \in sess.painted : r.page = n - 1 /\ r.text = entity_text

\* the regions painted on page n of the pass (numbered from 1)
PaintedOn(n) == { r \in sess.painted : r.page = n - 1 }

\* the custom regions of the request that are for page n
CustomFor(n) ==
  { i \in DOMAIN sess.custom_redactions : sess.custom_redactions[i].page = n - 1 }

\* a region was attempted on page n: a rectangle found for an approved
\* entity, or a custom region of that page
AttemptedOn(n) ==
  \/ ApprovedWithText # {} /\ sess.pages[n].matches > 0
  \/ CustomFor(n) # {}

\* the processing of page n raised: one of its custom regions is invalid
PageRaised(n) == \E i \in CustomFor(n) : ~sess.custom_redactions[i].valid

\* C23 as stated: processed_pages is the number of pages with at least one
\* region applied, failed_pages the number of pages on which regions were
\* attempted and all failed; other pages are counted in neither.
C23_ProcessedMeansRegionApplied ==
  SessDone =>
    /\ sess.stats.processed_pages =
         Cardinality({n \in DOMAIN sess.pages : PaintedOn(n) # {}})
    /\ sess.stats.failed_pages =
         Cardinality({n \in DOMAIN sess.pages : AttemptedOn(n) /\ PaintedOn(n) = {}})

\* C23: processed_pages is the number of pages whose processing ended
\* without an exception, whether or not a region was applied on them,
\* failed_pages the number of pages whose processing raised, whether or
\* not a region had been applied before; every page is in exactly one.
C23_ProcessedMeansNoException ==
  SessDone =>
    /\ sess.stats.processed_pages =
         Cardinality({n \in DOMAIN sess.pages : ~PageRaised(n)})
    /\ sess.stats.failed_pages =
         Cardinality({n \in DOMAIN sess.pages : PageRaised(n)})
    /\ sess.stats.processed_pages + sess.stats.failed_pages = sess.stats.total_pages

\* a page without any region counted as processed, and a page that raised
\* after a region was painted on it counted as failed
C23_Witness ==
  /\ SessDone
  /\ Len(sess.pages) = 2
  /\ ~AttemptedOn(2) /\ PaintedOn(2) = {}
  /\ PageRaised(1) /\ PaintedOn(1) # {}
  /\ sess.stats.processed_pages = 1
  /\ sess.stats.failed_pages = 1

\* the fill a style asks for on a surface
RequestedFill(redaction_style, on_image) ==
  IF redaction_style = "black" THEN {"black"}
  ELSE IF redaction_style = "white" THEN {"white"}
  ELSE IF on_image THEN {"blurred"}
  ELSE {"gray70", "gray80"}

\* C24: every region painted in a pass is filled as the requested style
\* says: black for BLACK, white for WHITE, gray on pages and blur on images
\* for BLUR, in redact_document and in the apply pass alike.
C24_FillFollowsStyle ==
  (SessDone /\ sess.redaction_style \in {"black", "white", "blur"}) =>
    \A d \in sess.drawn :
      d.fill \in RequestedFill(sess.redaction_style,
                               sess.kind = "redact" /\ sess.document.fmt = "image")

\* C25: in redact_document, for every value of redaction_style, every region
\* counted in redacted_entities has been painted on the output.
C25_CountedRegionsArePainted ==
  (SessDone /\ sess.kind = "redact" /\ sess.result.output = "redacted") =>
    sess.result.redacted_entities = Cardinality(sess.drawn)

\* C26: under every interleaving of process_document_task and apply passes
\* on one document, once the status has been written as 'processed' it is
\* never afterwards written as 'failed' or 'processing'.
C26_ProcessedIsNeverOverwritten ==
  [][status = "processed" => status' \notin {"failed", "processing"}]_vars

\* C27: an apply-redaction request that fails at any step (download,
\* redaction, upload, metadata update) leaves the status, the metadata and
\* the stored latest redacted artifact exactly as they were before it.
C27_FailedRequestChangesNothing ==
  \A p \in SeqRequests :
    (req[p].pc = "done" /\ req[p].response # "ok" /\ sess.pc = "watching")
      => DocumentState = sess.before

\* the stored list shows the edit of a request
EditReflected(edit, entities) ==
  LET i == entity_index_of(entities, edit.entity_id)
  IN  CASE edit.handler = "delete" -> i = 0
        [] edit.handler = "add" -> i # 0
        [] edit.handler = "approval" ->
             /\ i # 0
             /\ entities[i].user_approved = Get(edit.data, "user_approved", "None")
             /\ entities[i].is_redacted = Get(edit.data, "is_redacted", "True")
        [] OTHER ->
             /\ i # 0
             /\ \A k \in BoxKeys \cap DOMAIN edit.data :
                  /\ k \in DOMAIN entities[i].bounding_box
                  /\ entities[i].bounding_box[k] = edit.data[k]

\* C28: when two entity edits on different entities of the same document
\* run concurrently, the stored metadata afterwards reflects both edits.
C28_BothEditsReflected ==
  \A p \in Editors, q \in Editors :
    ( /\ p # q
      /\ ents.edits[p].pc = "done" /\ ents.edits[p].response = 200
      /\ ents.edits[q].pc = "done" /\ ents.edits[q].response = 200
      /\ ents.edits[p].entity_id # ents.edits[q].entity_id )
    => /\ EditReflected(ents.edits[p], ents.entities)
       /\ EditReflected(ents.edits[q], ents.entities)

\* C29: _filter_header_labels is total: for every list of entities with
\* string text and label, IDENTIFIER texts of digits and dots included, it
\* returns a list and never raises.
C29_FilterNeverRaises ==
  /\ fx.pc \in {"once", "twice"} => ~fx.once.raised
  /\ fx.pc = "twice" => ~fx.twice.raised

\* C30: every run of process_document_task eventually ends with the status
\* 'processed' or 'failed', whichever stage fails or succeeds; the document
\* is never left in 'processing' forever.
C30_TaskEndsProcessedOrFailed ==
  <>[](task.pc = "done" /\ status \in {"processed", "failed"})

\* a run that ended through the handler of the outer try
C30_Witness ==
  /\ task.pc = "done"
  /\ status = "failed"
  /\ metadata = FailedMetadata("general_error")
====
